---- MODULE Spec2Model ----
(***************************************************************************)
(* Model of awebox's variable-schema generation (awebox/mdl/system.py).    *)
(*                                                                         *)
(* generate_structure(options, architecture) is a pure function of the    *)
(* modelling options and of the architecture tree.  It is modelled by the *)
(* operator generate_structure, built from operators that follow the code *)
(* block by block; the action GenerateStructure is one call of it on the  *)
(* inputs chosen in Init.                                                  *)
(*                                                                         *)
(* A variable entry (name, (rows, cols)) of the code is the record         *)
(* [name |-> STRING, dim |-> <<rows, cols>>]; a table is a sequence of     *)
(* entries, in the order of the code's list.                               *)
(***************************************************************************)
EXTENDS Integers, Sequences, FiniteSets, TLC

VARIABLES options, architecture, pc, system_variables_list, system_gc, error

\* the state of the bound tables (define_bounds, scale_bounds)
VARIABLES variables, system_bounds, scaling, variable_bounds, scale_return,
          unscaled_bounds, scale_calls

\* the state of the quality tests (quality_funcs.py)
VARIABLES trial, test_param_dict, results, balance

schema_vars == <<options, architecture, system_variables_list, system_gc>>

bound_vars == <<variables, system_bounds, scaling, variable_bounds, scale_return,
                unscaled_bounds, scale_calls>>

quality_vars == <<trial, test_param_dict, results, balance>>

\* the state of the objects (ocp/nlp.py, trial.py) and of a sweep
\* (sweep_funcs.py): the objects, the last call on them, the number of calls,
\* and the heap of the mutable option dicts
VARIABLES nlp, trial_obj, call, n_calls, heap, base_options, returned, sweep

sweep_vars == <<heap, base_options, returned, sweep>>

object_vars == <<nlp, trial_obj, call, n_calls, sweep_vars>>

vars == <<schema_vars, pc, error, bound_vars, quality_vars, object_vars>>

(***************************************************************************)
(* Bounds of the model.                                                    *)
(***************************************************************************)
\* every tree on at most MaxNodes nodes (root included) is an input
MaxNodes == 3
\* node count of the wide architectures, whose indices have two digits
BigNodes == 12

(***************************************************************************)
(* Python's str() on a non-negative integer: its decimal digits.           *)
(***************************************************************************)
Digit(d) ==
    CASE d = 0 -> "0" [] d = 1 -> "1" [] d = 2 -> "2" [] d = 3 -> "3"
      [] d = 4 -> "4" [] d = 5 -> "5" [] d = 6 -> "6" [] d = 7 -> "7"
      [] d = 8 -> "8" [] d = 9 -> "9"

RECURSIVE Str(_)
Str(n) == IF n < 10 THEN Digit(n) ELSE Str(n \div 10) \o Digit(n % 10)

Entry(name, dim) == [name |-> name, dim |-> dim]

\* the value of a name that was never assigned (nothing returned, nothing raised)
None == <<>>

(***************************************************************************)
(* The per-node templates (system.py, lines 53-90).                        *)
(***************************************************************************)
tether_states == <<Entry("q", <<3, 1>>), Entry("dq", <<3, 1>>)>>

tether_gc == <<"q">>

tether_controls == <<>>

tether_multipliers == <<Entry("lambda", <<1, 1>>)>>

kite_multipliers == <<Entry("lambda", <<1, 1>>)>>

kite_gc == <<"q">>

\* the test of lines 66, 70 and 89: int(kite_dof) is 3 or 6, else ValueError
KiteDofKnown(opts) == opts.kite_dof = 3 \/ opts.kite_dof = 6

\* mutation of kite_states: surface_control = 1 adds no deflection state
kite_states_NoDeltaState(opts) ==
    LET base == <<Entry("q", <<3, 1>>), Entry("dq", <<3, 1>>)>>
    IN  IF opts.kite_dof = 3
        THEN base \o <<Entry("coeff", <<2, 1>>)>>
        ELSE IF opts.kite_dof = 6
        THEN base \o <<Entry("omega", <<3, 1>>), Entry("r", <<9, 1>>)>>
        ELSE base

kite_states(opts) ==
    LET base == <<Entry("q", <<3, 1>>), Entry("dq", <<3, 1>>)>>
    IN  IF opts.kite_dof = 3
        THEN base \o <<Entry("coeff", <<2, 1>>)>>
        ELSE IF opts.kite_dof = 6
        THEN base \o <<Entry("omega", <<3, 1>>), Entry("r", <<9, 1>>)>>
                  \o (IF opts.surface_control = 1
                      THEN <<Entry("delta", <<3, 1>>)>> ELSE <<>>)
        ELSE base

kite_controls(opts) ==
    LET base == <<Entry("f_fict", <<3, 1>>)>>
    IN  IF opts.kite_dof = 3
        THEN base \o <<Entry("dcoeff", <<2, 1>>)>>
        ELSE IF opts.kite_dof = 6
        THEN base \o <<Entry("m_fict", <<3, 1>>)>>
                  \o (IF opts.surface_control = 0
                      THEN <<Entry("delta", <<3, 1>>)>> ELSE <<>>)
                  \o (IF opts.surface_control = 1
                      THEN <<Entry("ddelta", <<3, 1>>)>> ELSE <<>>)
        ELSE base

(***************************************************************************)
(* The loop over the nodes (system.py, lines 94-124).                      *)
(***************************************************************************)
\* mutation of Suffixed: the parent index is written before the node index
Suffixed_ParentFirst(template, n, parent) ==
    [i \in 1..Len(template) |->
        Entry(template[i].name \o Str(parent) \o Str(n), template[i].dim)]

\* name + str(n) + str(parent) for every entry of a template
Suffixed(template, n, parent) ==
    [i \in 1..Len(template) |->
        Entry(template[i].name \o Str(n) \o Str(parent), template[i].dim)]

SuffixedNames(names, n, parent) ==
    [i \in 1..Len(names) |-> names[i] \o Str(n) \o Str(parent)]

\* n in list, for a Python list
InList(n, list) == \E i \in 1..Len(list) : list[i] = n

\* mutation of IsKite: a node is taken for a kite when it has no child
IsKite_Leaf(arch, n) ==
    \A m \in 1..(arch.number_of_nodes - 1) : arch.parent_map[m] # n

\* the test of line 104: n in kite_nodes
IsKite(arch, n) == InList(n, arch.kite_nodes)

\* the body of the loop for node n, extending the four lists in acc
NodeStep(opts, arch, acc, n) ==
    LET parent == arch.parent_map[n]
    IN  IF IsKite(arch, n)
        THEN [states |-> acc.states \o Suffixed(kite_states(opts), n, parent),
              controls |-> acc.controls \o Suffixed(kite_controls(opts), n, parent),
              multipliers |-> acc.multipliers \o Suffixed(kite_multipliers, n, parent),
              gc |-> acc.gc \o SuffixedNames(kite_gc, n, parent)]
        ELSE [states |-> acc.states \o Suffixed(tether_states, n, parent),
              controls |-> acc.controls \o Suffixed(tether_controls, n, parent),
              multipliers |-> acc.multipliers \o Suffixed(tether_multipliers, n, parent),
              gc |-> acc.gc \o SuffixedNames(tether_gc, n, parent)]

\* the nodes the loop visits: range(1, number_of_nodes)
LoopLast(arch) == arch.number_of_nodes - 1

RECURSIVE NodeLoopFrom(_, _, _, _)
NodeLoopFrom(opts, arch, acc, n) ==
    IF n > LoopLast(arch) THEN acc
    ELSE NodeLoopFrom(opts, arch, NodeStep(opts, arch, acc, n), n + 1)

NodeLoop(opts, arch) ==
    NodeLoopFrom(opts, arch,
                 [states |-> <<>>, controls |-> <<>>, multipliers |-> <<>>, gc |-> <<>>],
                 1)

(***************************************************************************)
(* Global states and controls (system.py, lines 126-141).                  *)
(***************************************************************************)
\* mutation of TetherVarKnown: the else branch of line 135 is missing
TetherVarKnown_NoElse(opts) == opts.tether_control_var \in STRING

TetherVarKnown(opts) ==
    opts.tether_control_var = "ddl_t" \/ opts.tether_control_var = "dddl_t"

\* mutation of GlobalStates: the acceleration is not promoted to a state
GlobalStates_NoPromotion(opts) ==
    <<Entry("l_t", <<1, 1>>), Entry("dl_t", <<1, 1>>)>>

GlobalStates(opts) ==
    <<Entry("l_t", <<1, 1>>), Entry("dl_t", <<1, 1>>)>>
    \o (IF opts.tether_control_var = "dddl_t"
        THEN <<Entry("ddl_t", <<1, 1>>)>> ELSE <<>>)

\* mutation of GlobalControls: the jerk mode keeps the acceleration control
GlobalControls_KeepsAcceleration(opts) ==
    IF opts.tether_control_var = "ddl_t" THEN <<Entry("ddl_t", <<1, 1>>)>>
    ELSE IF opts.tether_control_var = "dddl_t"
    THEN <<Entry("ddl_t", <<1, 1>>), Entry("dddl_t", <<1, 1>>)>>
    ELSE <<>>

GlobalControls(opts) ==
    IF opts.tether_control_var = "ddl_t" THEN <<Entry("ddl_t", <<1, 1>>)>>
    ELSE IF opts.tether_control_var = "dddl_t" THEN <<Entry("dddl_t", <<1, 1>>)>>
    ELSE <<>>

\* mutation of EnergyState: the energy state is added in both cases
EnergyState_Always(opts) == <<Entry("e", <<1, 1>>)>>

EnergyState(opts) ==
    IF opts.integral_outputs THEN <<>> ELSE <<Entry("e", <<1, 1>>)>>

(***************************************************************************)
(* extend_aerodynamics (system.py, lines 166-204).                         *)
(***************************************************************************)
InductionInUse(opts) == opts.induction_model # "not_in_use"

\* the loop over kite_nodes: one varrho per kite
RECURSIVE KiteLifted(_, _)
KiteLifted(arch, i) ==
    IF i > Len(arch.kite_nodes) THEN <<>>
    ELSE LET kite == arch.kite_nodes[i]
             parent == arch.parent_map[kite]
         IN  <<Entry("varrho" \o Str(kite) \o Str(parent), <<1, 1>>)>>
             \o KiteLifted(arch, i + 1)

\* the four entries that are lifted when steady and states when unsteady
LayerActuator(layer_node) ==
    <<Entry("a" \o Str(layer_node), <<1, 1>>),
      Entry("ct" \o Str(layer_node), <<1, 1>>),
      Entry("bar_varrho" \o Str(layer_node), <<1, 1>>),
      Entry("f" \o Str(layer_node), <<1, 1>>)>>

LayerGeometry(opts, layer_node) ==
    <<Entry("fnorm" \o Str(layer_node), <<1, 1>>),
      Entry("nhat" \o Str(layer_node), <<3, 1>>),
      Entry("qapp" \o Str(layer_node), <<1, 1>>),
      Entry("area" \o Str(layer_node), <<1, 1>>)>>
    \o (IF opts.correct_tilt
        THEN <<Entry("cosgamma" \o Str(layer_node), <<1, 1>>)>> ELSE <<>>)

\* mutation of LayerLiftedOf: the four actuator entries are lifted in both modes
LayerLiftedOf_AlwaysLifted(opts, layer_node) ==
    LayerActuator(layer_node) \o LayerGeometry(opts, layer_node)

LayerLiftedOf(opts, layer_node) ==
    (IF opts.steadyness = "steady" THEN LayerActuator(layer_node) ELSE <<>>)
    \o LayerGeometry(opts, layer_node)

LayerStatesOf(opts, layer_node) ==
    IF opts.steadyness = "unsteady" THEN LayerActuator(layer_node) ELSE <<>>

RECURSIVE LayerLifted(_, _, _)
LayerLifted(opts, arch, i) ==
    IF i > Len(arch.layer_nodes) THEN <<>>
    ELSE LayerLiftedOf(opts, arch.layer_nodes[i]) \o LayerLifted(opts, arch, i + 1)

RECURSIVE LayerStates(_, _, _)
LayerStates(opts, arch, i) ==
    IF i > Len(arch.layer_nodes) THEN <<>>
    ELSE LayerStatesOf(opts, arch.layer_nodes[i]) \o LayerStates(opts, arch, i + 1)

\* returns [system_lifted, system_states]
extend_aerodynamics(opts, system_lifted, system_states, arch) ==
    IF InductionInUse(opts)
    THEN <<system_lifted \o KiteLifted(arch, 1) \o LayerLifted(opts, arch, 1),
           system_states \o LayerStates(opts, arch, 1)>>
    ELSE <<system_lifted, system_states>>

(***************************************************************************)
(* Derivatives, parameters and the returned dict (system.py, 143-164).     *)
(***************************************************************************)
system_derivatives(system_states) ==
    [i \in 1..Len(system_states) |->
        Entry("d" \o system_states[i].name, system_states[i].dim)]

system_parameters ==
    <<Entry("l_s", <<1, 1>>), Entry("l_i", <<1, 1>>), Entry("diam_s", <<1, 1>>),
      Entry("diam_t", <<1, 1>>), Entry("t_f", <<1, 1>>)>>

\* mutation of DerivedStates: the derivatives are taken before the extension
DerivedStates_BeforeExtension(states, aero) == states

\* the states the derivative loop of lines 147-149 runs over: system_states as
\* extend_aerodynamics returned it (aero), not as it was passed in (states)
DerivedStates(states, aero) == aero[2]

\* mutation of StoreVariables: 'xl' is stored whether or not it is empty
StoreVariables_AlwaysLifted(states, derivatives, controls, multipliers, lifted) ==
    [k \in {"xd", "xddot", "u", "xa", "theta", "xl"} |->
        CASE k = "xd" -> states
          [] k = "xddot" -> derivatives
          [] k = "u" -> controls
          [] k = "xa" -> multipliers
          [] k = "theta" -> system_parameters
          [] k = "xl" -> lifted]

\* the dict of lines 155-162: 'xl' is a key only if system_lifted is not []
StoreVariables(states, derivatives, controls, multipliers, lifted) ==
    LET always == [k \in {"xd", "xddot", "u", "xa", "theta"} |->
                      CASE k = "xd" -> states
                        [] k = "xddot" -> derivatives
                        [] k = "u" -> controls
                        [] k = "xa" -> multipliers
                        [] k = "theta" -> system_parameters]
    IN  IF lifted # <<>> THEN always @@ [k \in {"xl"} |-> lifted] ELSE always

NoError == [type |-> "", args |-> <<>>]

ValueError(args) == [type |-> "ValueError", args |-> args]

KiteDofError(opts) ==
    ValueError(<<"kite dof option %s not inluded at present", Str(opts.kite_dof)>>)

TetherVarError == ValueError(<<"invalid tether control variable chosen">>)

\* the whole function: what it raises, or else the pair it returns
generate_structure(opts, arch) ==
    IF ~KiteDofKnown(opts)
    THEN [raised |-> KiteDofError(opts), variables |-> None, gc |-> None]
    ELSE
    LET loop == NodeLoop(opts, arch)
    IN  IF ~TetherVarKnown(opts)
        THEN [raised |-> TetherVarError, variables |-> None, gc |-> None]
        ELSE
        LET states == loop.states \o GlobalStates(opts) \o EnergyState(opts)
            controls == loop.controls \o GlobalControls(opts)
            aero == extend_aerodynamics(opts, <<>>, states, arch)
            derivatives == system_derivatives(DerivedStates(states, aero))
        IN  [raised |-> NoError,
             variables |-> StoreVariables(aero[2], derivatives, controls,
                                          loop.multipliers, aero[1]),
             gc |-> loop.gc]

(***************************************************************************)
(* The inputs.                                                             *)
(***************************************************************************)
KiteDofValues == {3, 4, 6}

TetherControlVars == {"ddl_t", "dddl_t", "dl_t"}

Options ==
    [kite_dof : KiteDofValues,
     surface_control : {0, 1},
     tether_control_var : TetherControlVars,
     integral_outputs : BOOLEAN,
     induction_model : {"not_in_use", "actuator"},
     steadyness : {"steady", "unsteady"},
     correct_tilt : BOOLEAN]

\* node n reaches the root in at most k steps along parent_map
RECURSIVE ReachesRoot(_, _, _)
ReachesRoot(pm, n, k) ==
    IF n = 0 THEN TRUE
    ELSE IF k = 0 THEN FALSE
    ELSE ReachesRoot(pm, pm[n], k - 1)

IsTree(pm, N) == \A n \in 1..(N - 1) : ReachesRoot(pm, n, N)

ParentMaps(N) == {pm \in [1..(N - 1) -> 0..(N - 1)] : IsTree(pm, N)}

\* the members of a set of numbers as an ascending list
RECURSIVE SortedList(_)
SortedList(S) ==
    IF S = {} THEN <<>>
    ELSE LET m == CHOOSE x \in S : \A y \in S : x <= y
         IN  <<m>> \o SortedList(S \ {m})

\* the layers of an architecture: the parents of its kites
LayerNodesOf(pm, kites) == {pm[k] : k \in kites}

MakeArchitecture(N, pm, kites) ==
    [number_of_nodes |-> N,
     parent_map |-> pm,
     kite_nodes |-> SortedList(kites),
     layer_nodes |-> SortedList(LayerNodesOf(pm, kites))]

SmallArchitectures ==
    UNION {{MakeArchitecture(N, pm, kites) :
                pm \in ParentMaps(N), kites \in SUBSET (1..(N - 1))} :
           N \in 1..MaxNodes}

\* wide architectures: every node hangs on the root, except one node m that
\* hangs on the root or on a node with a two-digit index
WideArchitectures ==
    LET N == BigNodes
    IN  UNION {{MakeArchitecture(N, [n \in 1..(N - 1) |-> IF n = m THEN p ELSE 0], kites) :
                    p \in ({0} \cup (10..(N - 1))) \ {m},
                    kites \in {{}, {m}, {m, N - 1}}} :
               m \in 1..(N - 1)}

Architectures == SmallArchitectures \cup WideArchitectures

(***************************************************************************)
(* The state machine: one call of generate_structure.                      *)
(***************************************************************************)
\* no bound table and no quality test is part of a call of generate_structure
BoundsUnused ==
    /\ variables = None /\ system_bounds = None /\ scaling = None
    /\ variable_bounds = None /\ scale_return = None
    /\ unscaled_bounds = None /\ scale_calls = 0

QualityUnused ==
    trial = None /\ test_param_dict = None /\ results = None /\ balance = None

\* no NLP, no Trial and no sweep either
ObjectsUnused ==
    /\ nlp = None /\ trial_obj = None /\ call = None /\ n_calls = 0
    /\ heap = None /\ base_options = None /\ returned = None /\ sweep = None

Init ==
    /\ options \in Options
    /\ architecture \in Architectures
    /\ pc = "call"
    /\ system_variables_list = None
    /\ system_gc = None
    /\ error = NoError
    /\ BoundsUnused
    /\ QualityUnused
    /\ ObjectsUnused

GenerateStructure ==
    /\ pc = "call"
    /\ LET out == generate_structure(options, architecture)
       IN  /\ pc' = IF out.raised = NoError THEN "returned" ELSE "raised"
           /\ system_variables_list' = out.variables
           /\ system_gc' = out.gc
           /\ error' = out.raised
    /\ UNCHANGED <<options, architecture, bound_vars, quality_vars, object_vars>>

Next == GenerateStructure

Spec == Init /\ [][Next]_vars

(***************************************************************************)
(* Vocabulary of the properties.                                           *)
(***************************************************************************)
Returned == pc = "returned"

Keys == DOMAIN system_variables_list

\* the table stored under key k, the empty table if k is no key
Table(k) == IF k \in Keys THEN system_variables_list[k] ELSE <<>>

NameSet(table) == {table[i].name : i \in 1..Len(table)}

EntrySet(table) == {table[i] : i \in 1..Len(table)}

NoNameTwice(table) ==
    \A i, j \in 1..Len(table) : i # j => table[i].name # table[j].name

NoSharedName(t1, t2) == NameSet(t1) \cap NameSet(t2) = {}

\* the number of scalars of a table: the sum of rows * cols
RECURSIVE ScalarsFrom(_, _)
ScalarsFrom(table, i) ==
    IF i > Len(table) THEN 0
    ELSE table[i].dim[1] * table[i].dim[2] + ScalarsFrom(table, i + 1)

Scalars(table) == ScalarsFrom(table, 1)

NumberOfKites == Len(architecture.kite_nodes)

NumberOfLayers == Len(architecture.layer_nodes)

Nodes == 1..(architecture.number_of_nodes - 1)

\* the induction model is in use
InductionActive == options.induction_model # "not_in_use"

(***************************************************************************)
(* C1  Identifiers are unique across the schema.                           *)
(***************************************************************************)
AllRoles == {"xd", "xddot", "u", "xa", "xl", "theta"}

\* the roles other than the derivative table
PlainRoles == {"xd", "u", "xa", "xl", "theta"}

\* C1 as claimed: in every returned schema no name occurs twice within a
\* table and no name occurs in two different tables among xd, xddot, u, xa,
\* xl and theta.
C1_AllIdentifiersUnique ==
    Returned =>
        /\ \A k \in AllRoles : NoNameTwice(Table(k))
        /\ \A k1, k2 \in AllRoles : k1 # k2 => NoSharedName(Table(k1), Table(k2))

\* C1 as amended: in every returned schema no name occurs in two different
\* tables among xd, u, xa, xl and theta, and the parameter table holds no
\* name twice.  (xddot repeats names of xd and u by construction: 'dq10' is
\* a state and the derivative of 'q10'.)
C1_PlainRolesDisjoint ==
    Returned =>
        /\ \A k1, k2 \in PlainRoles : k1 # k2 => NoSharedName(Table(k1), Table(k2))
        /\ NoNameTwice(Table("theta"))

\* a 6-dof schema with deflection states, induction states and a lifted table
C1_Witness ==
    /\ Returned
    /\ options.kite_dof = 6 /\ options.surface_control = 1
    /\ options.tether_control_var = "dddl_t"
    /\ options.steadyness = "unsteady"
    /\ "xl" \in Keys
    /\ NumberOfKites = 2

(***************************************************************************)
(* C2  The derivative table mirrors the final state table.                 *)
(***************************************************************************)
\* C2: xddot has the length of xd, and at every position i its entry is named
\* 'd' + the name of xd[i] and has the dimension of xd[i]; xd includes the
\* states the induction extension added.
C2_DerivativesMirrorStates ==
    Returned =>
        /\ Len(Table("xddot")) = Len(Table("xd"))
        /\ \A i \in 1..Len(Table("xd")) :
              /\ Table("xddot")[i].name = "d" \o Table("xd")[i].name
              /\ Table("xddot")[i].dim = Table("xd")[i].dim

\* unsteady induction on an architecture with a layer: xd ends with induction states
C2_Witness ==
    /\ Returned
    /\ InductionActive /\ options.steadyness = "unsteady"
    /\ NumberOfLayers >= 1
    /\ Table("xd")[Len(Table("xd"))].name = "f" \o Str(architecture.layer_nodes[NumberOfLayers])
    /\ Table("xddot")[Len(Table("xddot"))].name = "df" \o Str(architecture.layer_nodes[NumberOfLayers])

(***************************************************************************)
(* C3  base_name + str(node) + str(parent) is injective over the edges.    *)
(***************************************************************************)
\* C3 as claimed: two different nodes (edges) never get the same identifier
\* for the same base name.  system_gc holds 'q' + suffix and xa holds
\* 'lambda' + suffix of node n at position n.
C3_EdgeNamesInjective ==
    Returned =>
        \A n, m \in Nodes :
            n # m => /\ system_gc[n] # system_gc[m]
                     /\ Table("xa")[n].name # Table("xa")[m].name

(***************************************************************************)
(* C4  The schema of root -> junction 1 -> kite 2, 3 dof, accel control.   *)
(***************************************************************************)
C4_Architecture ==
    /\ architecture.number_of_nodes = 3
    /\ architecture.parent_map = <<0, 1>>
    /\ architecture.kite_nodes = <<2>>

C4_Options ==
    /\ options.kite_dof = 3
    /\ options.tether_control_var = "ddl_t"
    /\ ~options.integral_outputs
    /\ options.induction_model = "not_in_use"

\* the names of a table, in order
Names(table) == [i \in 1..Len(table) |-> table[i].name]

\* C4: for that architecture and those options the call returns exactly the
\* states q10, dq10, q21, dq21, coeff21, l_t, dl_t, e, the controls f_fict21,
\* dcoeff21, ddl_t, the multipliers lambda10, lambda21, and no 'xl' table.
C4_EndToEndSchema ==
    (pc # "call" /\ C4_Architecture /\ C4_Options) =>
        /\ Returned
        /\ Names(Table("xd")) =
              <<"q10", "dq10", "q21", "dq21", "coeff21", "l_t", "dl_t", "e">>
        /\ Names(Table("u")) = <<"f_fict21", "dcoeff21", "ddl_t">>
        /\ Names(Table("xa")) = <<"lambda10", "lambda21">>
        /\ "xl" \notin Keys

C4_Witness == Returned /\ C4_Architecture /\ C4_Options

(***************************************************************************)
(* C5  The number of per-edge entries does not depend on the tree's shape. *)
(***************************************************************************)
EdgeBaseNames ==
    {"q", "dq", "coeff", "omega", "r", "delta",
     "f_fict", "dcoeff", "m_fict", "ddelta", "lambda"}

\* the identifiers an edge of the architecture can carry
EdgeNames ==
    {b \o Str(n) \o Str(architecture.parent_map[n]) : b \in EdgeBaseNames, n \in Nodes}

\* the number of entries of a table that belong to an edge
PerEdge(table) ==
    LET names == EdgeNames
    IN  Cardinality({i \in 1..Len(table) : table[i].name \in names})

\* the sizes of the templates of lines 53-87
KiteStateTemplateSize ==
    IF options.kite_dof = 3 THEN 3
    ELSE IF options.surface_control = 1 THEN 5 ELSE 4

KiteControlTemplateSize == IF options.kite_dof = 3 THEN 2 ELSE 3

\* C5: the per-edge state, control and multiplier entries number, for each of
\* the N-1 non-root nodes, the size of the kite template if the node is a
\* kite and of the tether-junction template (2 states, no control, 1
\* multiplier) otherwise: a count in which the parent map does not occur.
C5_PerEdgeCountShapeInvariant ==
    Returned =>
        LET junctions == architecture.number_of_nodes - 1 - NumberOfKites
        IN  /\ PerEdge(Table("xd")) = NumberOfKites * KiteStateTemplateSize + junctions * 2
            /\ PerEdge(Table("u")) = NumberOfKites * KiteControlTemplateSize
            /\ PerEdge(Table("xa")) = architecture.number_of_nodes - 1

\* a chain in which the kite is the inner node and the leaf is a junction
C5_Witness ==
    /\ Returned
    /\ architecture.number_of_nodes = 3
    /\ architecture.parent_map = <<0, 1>>
    /\ architecture.kite_nodes = <<1>>
    /\ PerEdge(Table("xd")) = KiteStateTemplateSize + 2

(***************************************************************************)
(* C6  6 dof: deflections as controls (0) or as states with rates (1).     *)
(***************************************************************************)
\* the schema returned for the same inputs with surface_control = sc
SchemaWithSurfaceControl(sc) ==
    generate_structure([options EXCEPT !.surface_control = sc], architecture).variables

TableOf(schema, k) == IF k \in DOMAIN schema THEN schema[k] ELSE <<>>

\* the number of scalars of a whole schema
SchemaScalars(schema) ==
    Scalars(TableOf(schema, "xd")) + Scalars(TableOf(schema, "xddot"))
    + Scalars(TableOf(schema, "u")) + Scalars(TableOf(schema, "xa"))
    + Scalars(TableOf(schema, "xl")) + Scalars(TableOf(schema, "theta"))

KiteSuffix(i) ==
    Str(architecture.kite_nodes[i])
    \o Str(architecture.parent_map[architecture.kite_nodes[i]])

\* per kite, mode 0 has delta (3 scalars) as a control, mode 1 has delta as a
\* state and ddelta as a control
C6_DeflectionRoles(mode0, mode1) ==
    \A i \in 1..NumberOfKites :
        /\ Entry("delta" \o KiteSuffix(i), <<3, 1>>) \in EntrySet(TableOf(mode0, "u"))
        /\ "delta" \o KiteSuffix(i) \notin NameSet(TableOf(mode0, "xd"))
        /\ "ddelta" \o KiteSuffix(i) \notin NameSet(TableOf(mode0, "u"))
        /\ Entry("delta" \o KiteSuffix(i), <<3, 1>>) \in EntrySet(TableOf(mode1, "xd"))
        /\ Entry("ddelta" \o KiteSuffix(i), <<3, 1>>) \in EntrySet(TableOf(mode1, "u"))
        /\ "delta" \o KiteSuffix(i) \notin NameSet(TableOf(mode1, "u"))

C6_Case == Returned /\ options.kite_dof = 6 /\ options.surface_control = 0

\* C6 as claimed, for an architecture with one kite: with 6 dof, the schema
\* for surface_control = 1 has the deflection roles above and exactly 3
\* scalars more than the schema for surface_control = 0.
C6_TotalDiffersByThree ==
    (C6_Case /\ NumberOfKites = 1) =>
        LET mode0 == system_variables_list
            mode1 == SchemaWithSurfaceControl(1)
        IN  /\ C6_DeflectionRoles(mode0, mode1)
            /\ SchemaScalars(mode1) = SchemaScalars(mode0) + 3

\* C6 as amended: the deflection roles are as claimed; per kite the state
\* table and the derivative table each hold 3 scalars more in mode 1, the
\* control table holds as many in both modes (delta against ddelta), xa, xl
\* and theta are the same, so the schema holds 6 scalars more per kite.
C6_TotalDiffersBySixPerKite ==
    C6_Case =>
        LET mode0 == system_variables_list
            mode1 == SchemaWithSurfaceControl(1)
        IN  /\ C6_DeflectionRoles(mode0, mode1)
            /\ Scalars(TableOf(mode1, "xd")) = Scalars(TableOf(mode0, "xd")) + 3 * NumberOfKites
            /\ Scalars(TableOf(mode1, "xddot")) = Scalars(TableOf(mode0, "xddot")) + 3 * NumberOfKites
            /\ Scalars(TableOf(mode1, "u")) = Scalars(TableOf(mode0, "u"))
            /\ TableOf(mode1, "xa") = TableOf(mode0, "xa")
            /\ TableOf(mode1, "xl") = TableOf(mode0, "xl")
            /\ TableOf(mode1, "theta") = TableOf(mode0, "theta")
            /\ SchemaScalars(mode1) = SchemaScalars(mode0) + 6 * NumberOfKites

C6_Witness == C6_Case /\ NumberOfKites = 2

(***************************************************************************)
(* C7  Invalid kite_dof or tether control variable: an error, no schema.   *)
(***************************************************************************)
InvalidKiteDof == options.kite_dof \notin {3, 6}

InvalidTetherVar == options.tether_control_var \notin {"ddl_t", "dddl_t"}

InvalidOptions == InvalidKiteDof \/ InvalidTetherVar

NothingReturned == system_variables_list = None /\ system_gc = None

Occurrences(table, name) == Cardinality({i \in 1..Len(table) : table[i].name = name})

\* the entries of the control table that belong to no edge
GlobalControlNames == {Table("u")[i].name : i \in {j \in 1..Len(Table("u")) : Table("u")[j].name \notin EdgeNames}}

\* C8: l_t and dl_t are scalar states in both modes; with control variable
\* 'ddl_t', ddl_t is a control and no state and no table holds dddl_t; with
\* 'dddl_t', ddl_t is a scalar state and no control, and dddl_t is the one
\* control that belongs to no edge.
C8_TetherVariablesFollowMode ==
    Returned =>
        /\ Entry("l_t", <<1, 1>>) \in EntrySet(Table("xd"))
        /\ Entry("dl_t", <<1, 1>>) \in EntrySet(Table("xd"))
        /\ Occurrences(Table("xd"), "l_t") = 1
        /\ Occurrences(Table("xd"), "dl_t") = 1
        /\ options.tether_control_var = "ddl_t" =>
              /\ Entry("ddl_t", <<1, 1>>) \in EntrySet(Table("u"))
              /\ "ddl_t" \notin NameSet(Table("xd"))
              /\ \A k \in AllRoles : "dddl_t" \notin NameSet(Table(k))
              /\ GlobalControlNames = {"ddl_t"}
        /\ options.tether_control_var = "dddl_t" =>
              /\ Entry("ddl_t", <<1, 1>>) \in EntrySet(Table("xd"))
              /\ Occurrences(Table("xd"), "ddl_t") = 1
              /\ "ddl_t" \notin NameSet(Table("u"))
              /\ Entry("dddl_t", <<1, 1>>) \in EntrySet(Table("u"))
              /\ GlobalControlNames = {"dddl_t"}
              /\ Occurrences(Table("u"), "dddl_t") = 1

C8_Witness ==
    /\ Returned
    /\ options.tether_control_var = "dddl_t"
    /\ NumberOfKites >= 1
    /\ "ddl_t" \in NameSet(Table("xd"))

(***************************************************************************)
(* C9  Where the induction entries land.                                   *)
(***************************************************************************)
ActuatorBaseNames == {"a", "ct", "bar_varrho", "f"}

\* the number of lifted entries one layer gets
LiftedPerLayer ==
    (IF options.steadyness = "steady" THEN 4 ELSE 0) + 4
    + (IF options.correct_tilt THEN 1 ELSE 0)

\* C9: with the induction model in use, for every layer node l: a, ct,
\* bar_varrho and f (+ str(l)) are scalars of xl and not of xd when steady,
\* scalars of xd (with their derivatives in xddot) and not of xl when
\* unsteady; fnorm, qapp, area (scalars) and nhat (dimension 3) are in xl;
\* cosgamma is in xl exactly when correct_tilt is set; every kite has its
\* scalar varrho in xl, and xl holds nothing else (one varrho per kite).
C9_InductionEntriesByMode ==
    (Returned /\ InductionActive) =>
        /\ \A i \in 1..NumberOfLayers :
              LET l == Str(architecture.layer_nodes[i])
              IN  /\ \A b \in ActuatorBaseNames :
                        /\ options.steadyness = "steady" =>
                              /\ Entry(b \o l, <<1, 1>>) \in EntrySet(Table("xl"))
                              /\ b \o l \notin NameSet(Table("xd"))
                        /\ options.steadyness = "unsteady" =>
                              /\ Entry(b \o l, <<1, 1>>) \in EntrySet(Table("xd"))
                              /\ Entry("d" \o b \o l, <<1, 1>>) \in EntrySet(Table("xddot"))
                              /\ b \o l \notin NameSet(Table("xl"))
                  /\ Entry("fnorm" \o l, <<1, 1>>) \in EntrySet(Table("xl"))
                  /\ Entry("nhat" \o l, <<3, 1>>) \in EntrySet(Table("xl"))
                  /\ Entry("qapp" \o l, <<1, 1>>) \in EntrySet(Table("xl"))
                  /\ Entry("area" \o l, <<1, 1>>) \in EntrySet(Table("xl"))
                  /\ Entry("cosgamma" \o l, <<1, 1>>) \in EntrySet(Table("xl"))
                        <=> options.correct_tilt
                  /\ "cosgamma" \o l \in NameSet(Table("xl")) <=> options.correct_tilt
        /\ \A i \in 1..NumberOfKites :
              Entry("varrho" \o KiteSuffix(i), <<1, 1>>) \in EntrySet(Table("xl"))
        /\ Len(Table("xl")) = NumberOfKites + NumberOfLayers * LiftedPerLayer

C9_Witness ==
    /\ Returned /\ InductionActive
    /\ options.steadyness = "unsteady" /\ options.correct_tilt
    /\ NumberOfLayers = 2
    /\ "a" \o Str(architecture.layer_nodes[2]) \in NameSet(Table("xd"))

(***************************************************************************)
(* C10  The lifted table is a key only when it is not empty.               *)
(***************************************************************************)
\* some iteration of the loops of extend_aerodynamics ran
LiftedGenerated ==
    InductionActive /\ (NumberOfKites > 0 \/ NumberOfLayers > 0)

\* C10: the returned dict has the keys xd, xddot, u, xa and theta, and
\* besides them the key xl exactly when a lifted entry was generated, in
\* which case the table under xl is not empty; with the induction model not
\* in use xl is no key.
C10_LiftedKeyIffNonEmpty ==
    Returned =>
        /\ {"xd", "xddot", "u", "xa", "theta"} \subseteq Keys
        /\ Keys \subseteq AllRoles
        /\ "xl" \in Keys <=> LiftedGenerated
        /\ "xl" \in Keys => system_variables_list["xl"] # <<>>
        /\ ~InductionActive => "xl" \notin Keys

\* the induction model is in use, yet there is no kite: no lifted table
C10_Witness ==
    /\ Returned
    /\ InductionActive
    /\ NumberOfKites = 0
    /\ architecture.number_of_nodes >= 2
    /\ "xl" \notin Keys

(***************************************************************************)
(* C11  The energy state is there exactly without integral outputs.        *)
(***************************************************************************)
\* C11: the scalar 'e' is an entry of xd (once) exactly when integral outputs
\* are not requested, and when they are requested no table of the schema
\* holds an entry named 'e' or 'de'.
C11_EnergyStateIffNoIntegralOutputs ==
    Returned =>
        /\ Entry("e", <<1, 1>>) \in EntrySet(Table("xd")) <=> ~options.integral_outputs
        /\ "e" \in NameSet(Table("xd")) <=> ~options.integral_outputs
        /\ ~options.integral_outputs =>
              /\ Occurrences(Table("xd"), "e") = 1
              /\ Entry("de", <<1, 1>>) \in EntrySet(Table("xddot"))
        /\ options.integral_outputs =>
              \A k \in AllRoles :
                  "e" \notin NameSet(Table(k)) /\ "de" \notin NameSet(Table(k))

C11_Witness ==
    /\ Returned
    /\ options.integral_outputs
    /\ NumberOfKites >= 1
    /\ "e" \notin NameSet(Table("xd"))

(***************************************************************************)
(***************************************************************************)
(* The bound tables: define_bounds and scale_bounds (system.py, 206-236).  *)
(*                                                                         *)
(* A Python dict is an insertion-ordered list of [k, v] items.  An          *)
(* identifier is the sequence of its characters, so that its trailing      *)
(* digits can be cut.  A number is a fraction num/den with den >= 0, where *)
(* 1/0 is inf, -1/0 is -inf and 0/0 is nan.                                *)
(***************************************************************************)
(***************************************************************************)
\* scale_bounds is called on the same table at most MaxScaleCalls times
MaxScaleCalls == 2

DictHas(d, key) == \E i \in 1..Len(d) : d[i].k = key

DictGet(d, key) == d[CHOOSE i \in 1..Len(d) : d[i].k = key].v

\* d[key] = val: in place for a key of d, appended otherwise
DictSet(d, key, val) ==
    IF DictHas(d, key)
    THEN [i \in 1..Len(d) |-> IF d[i].k = key THEN [k |-> key, v |-> val] ELSE d[i]]
    ELSE d \o <<[k |-> key, v |-> val]>>

DictKeys(d) == [i \in 1..Len(d) |-> d[i].k]

Num(n, d) == [num |-> n, den |-> d]

Inf == Num(1, 0)

NegInf == Num(-1, 0)

NaN == Num(0, 0)

Sign(n) == IF n > 0 THEN 1 ELSE IF n < 0 THEN -1 ELSE 0

Abs(n) == IF n < 0 THEN -n ELSE n

RECURSIVE Gcd(_, _)
Gcd(a, b) == IF b = 0 THEN a ELSE Gcd(b, a % b)

\* the fraction n/d, d >= 0, in lowest terms
Fraction(n, d) ==
    IF d = 0 THEN Num(Sign(n), 0)
    ELSE LET g == Gcd(Abs(n), d) IN Num(n \div g, d \div g)

\* mutation of Divide: the bound is multiplied by the scale factor
Divide_Multiplies(x, s) == Fraction(x.num * s.num, x.den * s.den)

\* x / s for a finite s, by the rules of IEEE arithmetic (x / 0 is inf, -inf or nan)
Divide(x, s) ==
    Fraction(x.num * s.den * (IF s.num < 0 THEN -1 ELSE 1), x.den * Abs(s.num))

IsDigit(c) == c \in {"0", "1", "2", "3", "4", "5", "6", "7", "8", "9"}

\* struct_op.get_node_variable_name: the name without its trailing digits
RECURSIVE get_node_variable_name(_)
get_node_variable_name(name) ==
    IF Len(name) > 0 /\ IsDigit(name[Len(name)])
    THEN get_node_variable_name(SubSeq(name, 1, Len(name) - 1))
    ELSE name

\* mutation of BoundOf: the override of the base name is looked up first
BoundOf_BaseNameFirst(opts, variable_type, name) ==
    IF DictHas(opts, variable_type)
    THEN LET var_name == get_node_variable_name(name)
             overrides == DictGet(opts, variable_type)
         IN  IF DictHas(overrides, var_name)
             THEN [lb |-> DictGet(overrides, var_name)[1], ub |-> DictGet(overrides, var_name)[2]]
             ELSE IF DictHas(overrides, name)
             THEN [lb |-> DictGet(overrides, name)[1], ub |-> DictGet(overrides, name)[2]]
             ELSE [lb |-> NegInf, ub |-> Inf]
    ELSE [lb |-> NegInf, ub |-> Inf]

\* the body of the inner loop of define_bounds (lines 213-227)
BoundOf(opts, variable_type, name) ==
    IF DictHas(opts, variable_type)
    THEN LET var_name == get_node_variable_name(name)
             overrides == DictGet(opts, variable_type)
         IN  IF DictHas(overrides, name)
             THEN [lb |-> DictGet(overrides, name)[1], ub |-> DictGet(overrides, name)[2]]
             ELSE IF DictHas(overrides, var_name)
             THEN [lb |-> DictGet(overrides, var_name)[1], ub |-> DictGet(overrides, var_name)[2]]
             ELSE [lb |-> NegInf, ub |-> Inf]
    ELSE [lb |-> NegInf, ub |-> Inf]

\* the inner loop: variable_bounds[variable_type][name] for the names from i on
RECURSIVE BoundsOfType(_, _, _, _, _)
BoundsOfType(opts, variable_type, names, acc, i) ==
    IF i > Len(names) THEN acc
    ELSE BoundsOfType(opts, variable_type, names,
                      DictSet(acc, names[i], BoundOf(opts, variable_type, names[i])),
                      i + 1)

\* the outer loop over variables.keys()
RECURSIVE DefineFrom(_, _, _, _)
DefineFrom(opts, vars_struct, acc, i) ==
    IF i > Len(vars_struct) THEN acc
    ELSE DefineFrom(opts, vars_struct,
                    DictSet(acc, vars_struct[i].k,
                            BoundsOfType(opts, vars_struct[i].k, vars_struct[i].v, <<>>, 1)),
                    i + 1)

define_bounds(opts, vars_struct) == DefineFrom(opts, vars_struct, <<>>, 1)

KeyError(key) == [type |-> "KeyError", args |-> <<key>>]

ZeroDivisionError == [type |-> "ZeroDivisionError", args |-> <<"float division by zero">>]

\* the (variable_type, name) pairs in the order the loops of scale_bounds visit them
RECURSIVE ItemsFrom(_, _)
ItemsFrom(table, i) ==
    IF i > Len(table) THEN <<>>
    ELSE [j \in 1..Len(table[i].v) |-> <<table[i].k, table[i].v[j].k>>]
         \o ItemsFrom(table, i + 1)

Items(table) == ItemsFrom(table, 1)

\* what lines 233-234 raise for one variable, NoError if they raise nothing.
\* Dividing by zero raises for Python floats and gives inf or nan for numpy
\* and casadi values: zero_raises tells which kind the bounds are of.
ScaleError(scale, variable_type, name, zero_raises) ==
    IF ~DictHas(scale, variable_type) THEN KeyError(variable_type)
    ELSE IF ~DictHas(DictGet(scale, variable_type), name) THEN KeyError(name)
    ELSE IF DictGet(DictGet(scale, variable_type), name).num = 0 /\ zero_raises
    THEN ZeroDivisionError
    ELSE NoError

\* lines 233-234 for one variable: both bounds divided, in the table itself
ScaleOne(table, scale, variable_type, name) ==
    LET old == DictGet(DictGet(table, variable_type), name)
        factor == DictGet(DictGet(scale, variable_type), name)
    IN  DictSet(table, variable_type,
                DictSet(DictGet(table, variable_type), name,
                        [lb |-> Divide(old.lb, factor), ub |-> Divide(old.ub, factor)]))

\* the loops of scale_bounds from item i on; they end at the first exception
RECURSIVE ScaleFrom(_, _, _, _, _)
ScaleFrom(table, scale, items, i, zero_raises) ==
    IF i > Len(items) THEN [table |-> table, raised |-> NoError]
    ELSE LET err == ScaleError(scale, items[i][1], items[i][2], zero_raises)
         IN  IF err # NoError THEN [table |-> table, raised |-> err]
             ELSE ScaleFrom(ScaleOne(table, scale, items[i][1], items[i][2]),
                            scale, items, i + 1, zero_raises)

\* the table argument after the call, and what the call raised
scale_bounds(table, scale, zero_raises) ==
    ScaleFrom(table, scale, Items(table), 1, zero_raises)

\* mutation of ScaleReturn: the call returns a copy and leaves its argument alone
ScaleReturn_Copy(before, out) ==
    [argument |-> before, returns |-> "copy"]

\* line 236 returns the table that was passed in, which the loops have changed
ScaleReturn(before, out) ==
    [argument |-> out.table, returns |-> "variable_bounds"]

(***************************************************************************)
(* The inputs of the bound tables.                                         *)
(***************************************************************************)
N_q == <<"q">>

N_q10 == <<"q", "1", "0">>

N_q21 == <<"q", "2", "1">>

N_l_t == <<"l", "_", "t">>

N_ddl_t == <<"d", "d", "l", "_", "t">>

N_lambda == <<"l", "a", "m", "b", "d", "a">>

N_lambda10 == <<"l", "a", "m", "b", "d", "a", "1", "0">>

Item(key, val) == [k |-> key, v |-> val]

\* the variables struct: its keys and, for each, its subkeys
BoundSchemas ==
    {<<Item("xd", <<N_q10, N_q21, N_l_t>>), Item("u", <<N_ddl_t>>)>>,
     <<Item("xd", <<N_q21>>), Item("xa", <<N_lambda10>>)>>}

\* an item of a dict that may be absent: choice 0 leaves it out
Maybe(key, vals, choice) == IF choice = 0 THEN <<>> ELSE <<Item(key, vals[choice])>>

\* the [lb, ub] lists the options can give
BoundsOfQ == <<<<Num(0, 1), Num(5, 1)>>, <<NegInf, Num(3, 1)>>>>

BoundsOfQ21 == <<<<Num(-3, 1), Inf>>, <<Num(5, 1), Num(5, 1)>>>>

BoundsOfLt == <<<<Num(0, 1), Num(5, 1)>>>>

BoundsOfDdlt == <<<<Num(-3, 1), Num(5, 1)>>>>

BoundsOfLambda == <<<<Num(0, 1), Inf>>>>

XdOverrides ==
    {Maybe(N_q, BoundsOfQ, a) \o Maybe(N_q21, BoundsOfQ21, b) \o Maybe(N_l_t, BoundsOfLt, c) :
        a \in 0..2, b \in 0..2, c \in 0..1}

UOverrides == {Maybe(N_ddl_t, BoundsOfDdlt, a) : a \in 0..1}

XaOverrides == {Maybe(N_lambda, BoundsOfLambda, a) : a \in 0..1}

\* the override options: every role may be absent
SystemBounds ==
    {(IF hasxd THEN <<Item("xd", xd)>> ELSE <<>>)
     \o (IF hasu THEN <<Item("u", u)>> ELSE <<>>)
     \o (IF hasxa THEN <<Item("xa", xa)>> ELSE <<>>) :
        hasxd \in BOOLEAN, xd \in XdOverrides,
        hasu \in BOOLEAN, u \in UOverrides,
        hasxa \in BOOLEAN, xa \in XaOverrides}

\* the scale factors a variable can have
ScaleValues == <<Num(0, 1), Num(2, 1)>>

SchemaItems(schema) ==
    UNION {{<<schema[i].k, schema[i].v[j]>> : j \in 1..Len(schema[i].v)} :
           i \in 1..Len(schema)}

RECURSIVE ScalesOfType(_, _, _, _)
ScalesOfType(variable_type, names, choice, i) ==
    IF i > Len(names) THEN <<>>
    ELSE Maybe(names[i], ScaleValues, choice[<<variable_type, names[i]>>])
         \o ScalesOfType(variable_type, names, choice, i + 1)

\* a scaling table for the schema: a factor is missing where choice is 0
ScalingOf(schema, choice) ==
    [i \in 1..Len(schema) |->
        Item(schema[i].k, ScalesOfType(schema[i].k, schema[i].v, choice, 1))]

Scalings(schema) ==
    {ScalingOf(schema, choice) :
        choice \in [SchemaItems(schema) -> 0..Len(ScaleValues)]}

(***************************************************************************)
(* The state machine of the bound tables: define_bounds, then scale_bounds *)
(* on the table it returned, once or several times.                        *)
(***************************************************************************)
SchemaUnused ==
    /\ options = None /\ architecture = None
    /\ system_variables_list = None /\ system_gc = None

InitBounds ==
    /\ variables \in BoundSchemas
    /\ system_bounds \in SystemBounds
    /\ scaling \in Scalings(variables)
    /\ variable_bounds = None
    /\ unscaled_bounds = None
    /\ scale_return = "nothing"
    /\ scale_calls = 0
    /\ pc = "define"
    /\ error = NoError
    /\ SchemaUnused
    /\ QualityUnused
    /\ ObjectsUnused

DefineBounds ==
    /\ pc = "define"
    /\ variable_bounds' = define_bounds(system_bounds, variables)
    /\ unscaled_bounds' = variable_bounds'
    /\ pc' = "scale"
    /\ UNCHANGED <<variables, system_bounds, scaling, scale_return, scale_calls,
                   error, schema_vars, quality_vars, object_vars>>

ScaleBounds ==
    /\ pc = "scale"
    /\ scale_calls < MaxScaleCalls
    /\ \E zero_raises \in BOOLEAN :
          LET out == scale_bounds(variable_bounds, scaling, zero_raises)
              ret == ScaleReturn(variable_bounds, out)
          IN  IF out.raised # NoError
              THEN /\ variable_bounds' = out.table
                   /\ scale_return' = "nothing"
                   /\ error' = out.raised
                   /\ pc' = "raised"
              ELSE /\ variable_bounds' = ret.argument
                   /\ scale_return' = ret.returns
                   /\ error' = NoError
                   /\ pc' = "scale"
    /\ scale_calls' = scale_calls + 1
    /\ UNCHANGED <<variables, system_bounds, scaling, unscaled_bounds,
                   schema_vars, quality_vars, object_vars>>

NextBounds == DefineBounds \/ ScaleBounds

SpecBounds == InitBounds /\ [][NextBounds]_vars

(***************************************************************************)
(* Claims about the bound tables (specification SpecBounds).               *)
(***************************************************************************)
BoundsDefined == pc # "define"

FreshlyDefined == BoundsDefined /\ scale_calls = 0

\* the base name of each identifier of BoundSchemas, written out
BaseNameOf(name) ==
    CASE name = N_q10 -> N_q
      [] name = N_q21 -> N_q
      [] name = N_lambda10 -> N_lambda
      [] OTHER -> name

HasOverride(variable_type, key) ==
    \E i \in 1..Len(system_bounds) :
        /\ system_bounds[i].k = variable_type
        /\ \E j \in 1..Len(system_bounds[i].v) : system_bounds[i].v[j].k = key

OverrideOf(variable_type, key) ==
    LET i == CHOOSE i \in 1..Len(system_bounds) : system_bounds[i].k = variable_type
        j == CHOOSE j \in 1..Len(system_bounds[i].v) : system_bounds[i].v[j].k = key
    IN  system_bounds[i].v[j].v

ExpectedBound(variable_type, name) ==
    IF HasOverride(variable_type, name)
    THEN [lb |-> OverrideOf(variable_type, name)[1],
          ub |-> OverrideOf(variable_type, name)[2]]
    ELSE IF HasOverride(variable_type, BaseNameOf(name))
    THEN [lb |-> OverrideOf(variable_type, BaseNameOf(name))[1],
          ub |-> OverrideOf(variable_type, BaseNameOf(name))[2]]
    ELSE [lb |-> NegInf, ub |-> Inf]

\* C12: define_bounds gives every variable of the schema the override of its
\* full identifier if there is one, else the override of its base name if
\* there is one, else (-inf, +inf); the table it returns has the role keys of
\* the schema and, under each, the identifiers of the schema.
C12_BoundsInThreeTiers ==
    FreshlyDefined =>
        /\ Len(variable_bounds) = Len(variables)
        /\ \A i \in 1..Len(variables) :
              /\ variable_bounds[i].k = variables[i].k
              /\ Len(variable_bounds[i].v) = Len(variables[i].v)
              /\ \A j \in 1..Len(variables[i].v) :
                    /\ variable_bounds[i].v[j].k = variables[i].v[j]
                    /\ variable_bounds[i].v[j].v
                           = ExpectedBound(variables[i].k, variables[i].v[j])

\* q21 has an override of its own and one of its base name that differ, q10
\* has only that of the base name, l_t has none
C12_Witness ==
    /\ FreshlyDefined
    /\ HasOverride("xd", N_q) /\ HasOverride("xd", N_q21)
    /\ OverrideOf("xd", N_q) # OverrideOf("xd", N_q21)
    /\ ~HasOverride("xd", N_l_t) /\ ~HasOverride("u", N_ddl_t)
    /\ \E i \in 1..Len(variable_bounds) :
          /\ variable_bounds[i].k = "xd"
          /\ Len(variable_bounds[i].v) = 3
          /\ variable_bounds[i].v[1].v.lb = OverrideOf("xd", N_q)[1]
          /\ variable_bounds[i].v[2].v.lb = OverrideOf("xd", N_q21)[1]
          /\ variable_bounds[i].v[3].v = [lb |-> NegInf, ub |-> Inf]

ScaleOf(variable_type, name) ==
    LET i == CHOOSE i \in 1..Len(scaling) : scaling[i].k = variable_type
        j == CHOOSE j \in 1..Len(scaling[i].v) : scaling[i].v[j].k = name
    IN  scaling[i].v[j].v

ScaleMissing(variable_type, name) ==
    ~\E i \in 1..Len(scaling) :
        /\ scaling[i].k = variable_type
        /\ \E j \in 1..Len(scaling[i].v) : scaling[i].v[j].k = name

ScaleZero(variable_type, name) ==
    ~ScaleMissing(variable_type, name) /\ ScaleOf(variable_type, name).num = 0

BadScale ==
    \E item \in SchemaItems(variables) :
        ScaleMissing(item[1], item[2]) \/ ScaleZero(item[1], item[2])

\* C13: once scale_bounds has been called with a scaling table in which the
\* factor of some bounded variable is zero or missing, the call has failed
\* with a ConfigurationError.
C13_BadScaleIsConfigurationError ==
    (scale_calls >= 1 /\ BadScale) =>
        pc = "raised" /\ error.type = "ConfigurationError"

BoundAt(table, variable_type, name) ==
    LET i == CHOOSE i \in 1..Len(table) : table[i].k = variable_type
        j == CHOOSE j \in 1..Len(table[i].v) : table[i].v[j].k = name
    IN  table[i].v[j].v

RECURSIVE Power(_, _)
Power(b, e) == IF e = 0 THEN 1 ELSE b * Power(b, e - 1)

\* new = old / (num/den)^calls for a finite old and a nonzero factor; an
\* infinite old keeps its value under a positive factor; a zero factor
\* leaves no finite value
DividedTimes(new, old, factor, calls) ==
    IF calls = 0 THEN new = old
    ELSE IF factor.num = 0 THEN new.den = 0
    ELSE IF old.den = 0 THEN new = old
    ELSE /\ new.den # 0
         /\ new.num * Power(factor.num, calls) * old.den
                = old.num * new.den * Power(factor.den, calls)

ScaledInPlace ==
    (pc = "scale") =>
        /\ scale_calls >= 1 => scale_return = "variable_bounds"
        /\ \A item \in SchemaItems(variables) :
              LET new == BoundAt(variable_bounds, item[1], item[2])
                  old == BoundAt(unscaled_bounds, item[1], item[2])
                  factor == ScaleOf(item[1], item[2])
              IN  /\ DividedTimes(new.lb, old.lb, factor, scale_calls)
                  /\ DividedTimes(new.ub, old.ub, factor, scale_calls)

InputsKept ==
    /\ variables' = variables
    /\ system_bounds' = system_bounds
    /\ scaling' = scaling
    /\ pc = "define" => unscaled_bounds' = variable_bounds'

\* C14 as the code has it: define_bounds and scale_bounds leave the schema,
\* the override options and the scaling table unchanged and define_bounds
\* returns a new table, but scale_bounds divides the table passed in, in
\* place, and returns that same table: after n calls on the same table every
\* bound has been divided n times by its scale factor.
C14_ScalesInPlace == [][InputsKept]_vars /\ []ScaledInPlace

C14_Witness ==
    /\ pc = "scale" /\ scale_calls = 2
    /\ scale_return = "variable_bounds"
    /\ variable_bounds # unscaled_bounds
    /\ \E item \in SchemaItems(variables) :
          /\ BoundAt(unscaled_bounds, item[1], item[2]).ub = Num(5, 1)
          /\ BoundAt(variable_bounds, item[1], item[2]).ub = Num(5, 4)

\* C14 as stated: the bound table passed to scale_bounds is unchanged by the
\* call, so that a second call on it starts from the same unscaled bounds.
C14_TablePassedInUnchanged ==
    (scale_calls >= 1 /\ pc = "scale") => variable_bounds = unscaled_bounds

(***************************************************************************)
(* The quality tests (quality_funcs.py).                                   *)
(*                                                                         *)
(* A time series is a sequence of integers; a series at collocation-node   *)
(* resolution is a sequence of such sequences, one per control interval.   *)
(* results is a dict from the name of a check to a boolean.                *)
(***************************************************************************)
RECURSIVE SumSeq(_)
SumSeq(xs) == IF xs = <<>> THEN 0 ELSE Head(xs) + SumSeq(Tail(xs))

RECURSIVE Flatten(_)
Flatten(xss) == IF xss = <<>> THEN <<>> ELSE Head(xss) \o Flatten(Tail(xss))

AbsSeq(xs) == [i \in 1..Len(xs) |-> Abs(xs[i])]

MinSeq(xs) == CHOOSE x \in {xs[i] : i \in 1..Len(xs)} : \A i \in 1..Len(xs) : x <= xs[i]

MaxSeq(xs) == CHOOSE x \in {xs[i] : i \in 1..Len(xs)} : \A i \in 1..Len(xs) : x >= xs[i]

\* np.average(xs) > limit, for a series that is not empty
AverageAbove(xs, limit) == SumSeq(xs) > limit * Len(xs)

\* mutation of test_numerics: a value equal to the threshold fails
test_numerics_EqualityFails(tr, params, res) ==
    LET t_f == SumSeq(tr.t_f)
        res1 == DictSet(res, "t_f_min", ~(t_f <= params.t_f_min))
    IN  DictSet(res1, "max_control_interval",
                ~(t_f >= params.max_control_interval * tr.n_k))

\* test_numerics (lines 35-59); t_f / float(n_k) > m is t_f > m * n_k for n_k > 0
test_numerics(tr, params, res) ==
    LET t_f == SumSeq(tr.t_f)
        res1 == DictSet(res, "t_f_min", ~(t_f < params.t_f_min))
    IN  DictSet(res1, "max_control_interval",
                ~(t_f > params.max_control_interval * tr.n_k))

\* lines 84-91: the series of one invariant of one edge in output_vals[i]
InvariantList(tr, i, name) ==
    IF tr.discretization = "direct_collocation"
    THEN Flatten(DictGet(tr.output_vals[i + 1].coll_outputs, name))
    ELSE DictGet(tr.output_vals[i + 1].outputs, name)

\* lines 92-114 for one invariant
InvariantResult(tr, i, name, limit, res) ==
    DictSet(res, name, ~AverageAbove(AbsSeq(InvariantList(tr, i, name)), limit))

\* mutation of InvariantStep: the results are taken from the initial guess
InvariantStep_InitialGuess(tr, params, res, node, i) ==
    LET edge == Str(node) \o Str(tr.parent_map[node])
    IN  IF i = 0
        THEN InvariantResult(tr, i, "ddc" \o edge, params.ddc_max,
                 InvariantResult(tr, i, "dc" \o edge, params.dc_max,
                     InvariantResult(tr, i, "c" \o edge, params.c_max, res)))
        ELSE res

\* the body of the loop over i (lines 82-114): results are set for i = 1 only
InvariantStep(tr, params, res, node, i) ==
    LET edge == Str(node) \o Str(tr.parent_map[node])
    IN  IF i = 1
        THEN InvariantResult(tr, i, "ddc" \o edge, params.ddc_max,
                 InvariantResult(tr, i, "dc" \o edge, params.dc_max,
                     InvariantResult(tr, i, "c" \o edge, params.c_max, res)))
        ELSE res

\* the loop over the nodes (lines 80-114); loop is [node, results]
RECURSIVE InvariantsFrom(_, _, _)
InvariantsFrom(tr, params, loop) ==
    IF loop.node >= tr.number_of_nodes THEN loop.results
    ELSE InvariantsFrom(tr, params,
             [node |-> loop.node + 1,
              results |-> InvariantStep(tr, params,
                              InvariantStep(tr, params, loop.results, loop.node, 0),
                              loop.node, 1)])

test_invariants(tr, params, res) ==
    InvariantsFrom(tr, params, [node |-> 1, results |-> res])

\* lines 131-140 and 143-153: one performance output of output_vals[1]
PerformanceList(tr, name) ==
    IF tr.discretization = "direct_collocation"
    THEN Flatten(DictGet(tr.performance.coll_outputs, name))
    ELSE DictGet(tr.performance.outputs, name)

\* mutation of MainTension: the multiplier is left out
MainTension_LengthOnly(tr) == [k \in 1..Len(tr.l_t) |-> tr.l_t[k]]

\* l_t[0] * lambda10[0], sample by sample (line 159)
MainTension(tr) == [k \in 1..Len(tr.l_t) |-> tr.l_t[k] * tr.lambda10[k]]

\* test_outputs (lines 120-167)
test_outputs(tr, params, res) ==
    LET res1 == DictSet(res, "loyd_factor",
                        ~AverageAbove(PerformanceList(tr, "loyd_factor"),
                                      params.max_loyd_factor))
        res2 == DictSet(res1, "power_harvesting_factor",
                        ~AverageAbove(PerformanceList(tr, "phf"),
                                      params.max_power_harvesting_factor))
    IN  DictSet(res2, "tau_max", ~(MaxSeq(MainTension(tr)) > params.max_tension))

\* the body of the loop of test_variables (lines 186-203): the else of line
\* 202 belongs to the if of line 198
HeightStep(tr, res, node) ==
    LET node_str == "q" \o Str(node) \o Str(tr.parent_map[node])
        heights_xd == DictGet(tr.V_final.xd, node_str)
        res1 == IF MinSeq(heights_xd) < 0
                THEN DictSet(res, "min_node_height", FALSE)
                ELSE res
    IN  IF tr.discretization = "direct_collocation"
        THEN IF MinSeq(Flatten(DictGet(tr.V_final.coll_var, node_str))) < 0
             THEN DictSet(res1, "min_node_height", FALSE)
             ELSE res1
        ELSE DictSet(res1, "min_node_height", TRUE)

\* the loop over the nodes (lines 187-203); loop is [node, results]
RECURSIVE HeightsFrom(_, _)
HeightsFrom(tr, loop) ==
    IF loop.node >= tr.number_of_nodes THEN loop.results
    ELSE HeightsFrom(tr, [node |-> loop.node + 1,
                          results |-> HeightStep(tr, loop.results, loop.node)])

\* test_variables (lines 169-205)
test_variables(tr, params, res) == HeightsFrom(tr, [node |-> 1, results |-> res])

(***************************************************************************)
(* test_power_balance (quality_funcs.py, 207-259).  The name of a power    *)
(* term is the sequence of its characters, as the code slices it.          *)
(* balance[key] is kept as the pair of the squared norm of the residual    *)
(* and the power it is divided by.                                         *)
(***************************************************************************)
\* str(n) as a sequence of characters
RECURSIVE StrChars(_)
StrChars(n) == IF n < 10 THEN <<Digit(n)>> ELSE StrChars(n \div 10) \o <<Digit(n % 10)>>

C_P_tether == <<"P", "_", "t", "e", "t", "h", "e", "r">>

C_P_tetherdrag == C_P_tether \o <<"d", "r", "a", "g">>

C_P_kin == <<"P", "_", "k", "i", "n">>

\* name[-k:] and name[:k] of Python, for k >= 1
SliceLast(name, k) == IF k >= Len(name) THEN name ELSE SubSeq(name, Len(name) - k + 1, Len(name))

SliceFirst(name, k) == IF k >= Len(name) THEN name ELSE SubSeq(name, 1, k)

Zeros(n) == [k \in 1..n |-> 0]

\* mutation of AddSeries: the term is not added
AddSeries_KeepsTotal(a, b) == a

AddSeries(a, b) == [k \in 1..Len(a) |-> a[k] + b[k]]

SubSeries(a, b) == [k \in 1..Len(a) |-> a[k] - b[k]]

SumSq(xs) == SumSeq([k \in 1..Len(xs) |-> xs[k] * xs[k]])

MaxOf(a, b) == IF a >= b THEN a ELSE b

\* line 224: the name ends in str(node)
NodeMatches(name, node) == SliceLast(name, Len(StrChars(node))) = StrChars(node)

\* lines 223-228 from term i on; acc is [P_total, max_node_power]
RECURSIVE NodeTermsFrom(_, _, _, _)
NodeTermsFrom(power_balance, node, acc, i) ==
    IF i > Len(power_balance) THEN acc
    ELSE NodeTermsFrom(power_balance, node,
             IF NodeMatches(power_balance[i].k, node)
             THEN [P_total |-> AddSeries(acc.P_total, power_balance[i].v),
                   max_node_power |-> MaxOf(MaxSeq(AbsSeq(power_balance[i].v)),
                                            acc.max_node_power)]
             ELSE acc,
             i + 1)

\* lines 233-238 from child i on
RECURSIVE ChildTermsFrom(_, _, _, _)
ChildTermsFrom(power_balance, children, acc, i) ==
    IF i > Len(children) THEN acc
    ELSE LET P_child == DictGet(power_balance, C_P_tether \o StrChars(children[i]))
         IN  ChildTermsFrom(power_balance, children,
                 [P_total |-> SubSeries(acc.P_total, P_child),
                  max_node_power |-> MaxOf(MaxSeq(AbsSeq(P_child)), acc.max_node_power)],
                 i + 1)

\* lines 218-240 for one node: norm(P_total) and max_node_power
NodeBalance(tr, node) ==
    LET own == NodeTermsFrom(tr.power_balance, node,
                             [P_total |-> Zeros(tr.tgrid_len), max_node_power |-> 0], 1)
        all == IF DictHas(tr.children_map, node)
               THEN ChildTermsFrom(tr.power_balance, DictGet(tr.children_map, node), own, 1)
               ELSE own
    IN  [normsq |-> SumSq(all.P_total), power |-> all.max_node_power]

\* the loop over the nodes (lines 217-242); loop is [node, balance,
\* max_system_power]
RECURSIVE NodeBalancesFrom(_, _)
NodeBalancesFrom(tr, loop) ==
    IF loop.node >= tr.number_of_nodes THEN loop
    ELSE LET b == NodeBalance(tr, loop.node)
         IN  NodeBalancesFrom(tr,
                 [node |-> loop.node + 1,
                  balance |-> DictSet(loop.balance, Str(loop.node), b),
                  max_system_power |-> MaxOf(b.power, loop.max_system_power)])

\* mutation of TotalKept: every term is kept
TotalKept_EveryTerm(name) == TRUE

\* line 247: the terms of the balance of the entire system
TotalKept(name) ==
    \/ SliceFirst(name, 8) # C_P_tether
    \/ name = C_P_tether \o <<"1">>
    \/ SliceFirst(name, 12) = C_P_tetherdrag

\* lines 245-248 from term i on
RECURSIVE TotalFrom(_, _, _)
TotalFrom(power_balance, P_total, i) ==
    IF i > Len(power_balance) THEN P_total
    ELSE TotalFrom(power_balance,
                   IF TotalKept(power_balance[i].k)
                   THEN AddSeries(P_total, power_balance[i].v)
                   ELSE P_total,
                   i + 1)

\* balance[node] > power_balance_tresh for a threshold num/den >= 0: x / 0 is
\* nan for x = 0, which is not greater than anything, and inf otherwise
BalanceAbove(b, tresh) ==
    IF b.power = 0 THEN b.normsq > 0
    ELSE b.normsq * tresh.den * tresh.den > tresh.num * tresh.num * b.power * b.power

\* lines 252-257 from key i of balance on
RECURSIVE BalanceResultsFrom(_, _, _, _)
BalanceResultsFrom(bal, tresh, res, i) ==
    IF i > Len(bal) THEN res
    ELSE BalanceResultsFrom(bal, tresh,
             DictSet(res, "energy_balance" \o bal[i].k, ~BalanceAbove(bal[i].v, tresh)),
             i + 1)

\* test_power_balance: the results it returns and its local balance
test_power_balance(tr, params, res) ==
    LET nodes == NodeBalancesFrom(tr, [node |-> 1, balance |-> <<>>,
                                       max_system_power |-> 0])
        P_total == TotalFrom(tr.power_balance, Zeros(tr.tgrid_len), 1)
        bal == DictSet(nodes.balance, "total",
                       [normsq |-> SumSq(P_total), power |-> nodes.max_system_power])
    IN  [results |-> BalanceResultsFrom(bal, params.power_balance_tresh, res, 1),
         balance |-> bal]

(***************************************************************************)
(* The inputs of the quality tests: a solved trial and the thresholds.     *)
(***************************************************************************)
\* children_map: the inverse of parent_map, for the nodes that have children
RECURSIVE ChildrenFrom(_, _, _)
ChildrenFrom(N, pm, p) ==
    IF p >= N THEN <<>>
    ELSE LET children == SortedList({n \in 1..(N - 1) : pm[n] = p})
         IN  (IF children = <<>> THEN <<>> ELSE <<Item(p, children)>>)
             \o ChildrenFrom(N, pm, p + 1)

EdgeOf(pm, n) == Str(n) \o Str(pm[n])

\* one control interval of collocation nodes after the other
Nested(first, second) == <<first, second>>

\* the three invariants of every edge, each with the same series per kind
InvariantTable(N, pm, profile) ==
    Flatten([n \in 1..(N - 1) |->
                <<Item("c" \o EdgeOf(pm, n), profile[n].c),
                  Item("dc" \o EdgeOf(pm, n), profile[n].dc),
                  Item("ddc" \o EdgeOf(pm, n), profile[n].ddc)>>])

\* output_vals[i]: the table of the discretization holds the profile, at the
\* resolution of the discretization
OutputVals(N, pm, disc, profile) ==
    IF disc = "direct_collocation"
    THEN [outputs |-> InvariantTable(N, pm, [n \in 1..(N - 1) |->
                          [c |-> <<0, 0>>, dc |-> <<0, 0>>, ddc |-> <<0, 0>>]]),
          coll_outputs |-> InvariantTable(N, pm, [n \in 1..(N - 1) |->
                          [c |-> Nested(profile[n].c, <<0, 0>>),
                           dc |-> Nested(<<0, 0>>, profile[n].dc),
                           ddc |-> Nested(profile[n].ddc, <<0, 0>>)]])]
    ELSE [outputs |-> InvariantTable(N, pm, profile), coll_outputs |-> <<>>]

Performance(disc, loyd_factor, phf) ==
    IF disc = "direct_collocation"
    THEN [outputs |-> <<Item("loyd_factor", <<0, 0>>), Item("phf", <<0, 0>>)>>,
          coll_outputs |-> <<Item("loyd_factor", Nested(loyd_factor, loyd_factor)),
                             Item("phf", Nested(phf, phf))>>]
    ELSE [outputs |-> <<Item("loyd_factor", loyd_factor), Item("phf", phf)>>,
          coll_outputs |-> <<>>]

\* V_final: the height of every node at the control intervals and, under
\* direct collocation, at the collocation nodes
VFinal(N, pm, disc, heights) ==
    [xd |-> [n \in 1..(N - 1) |-> Item("q" \o EdgeOf(pm, n), heights[n].xd)],
     coll_var |-> IF disc = "direct_collocation"
                  THEN [n \in 1..(N - 1) |-> Item("q" \o EdgeOf(pm, n), heights[n].coll)]
                  ELSE <<>>]

\* the power terms: P_kin<n> and P_tether<n> of every node and, where drag
\* is not empty, P_tetherdrag1
PowerBalance(N, power, drag) ==
    Flatten([n \in 1..(N - 1) |->
                <<Item(C_P_kin \o StrChars(n), power[n].kin),
                  Item(C_P_tether \o StrChars(n), power[n].tether)>>
                \o (IF n = 1 /\ drag # <<>>
                    THEN <<Item(C_P_tetherdrag \o StrChars(n), drag)>>
                    ELSE <<>>)])

Discretizations == {"direct_collocation", "multiple_shooting"}

HeightProfiles ==
    {[xd |-> xd, coll |-> coll] :
        xd \in {<<0, 2, 1>>, <<1, -1, 1>>},
        coll \in {Nested(<<1, 1>>, <<1, 0>>), Nested(<<1, 1>>, <<-1, 1>>)}}

SafeHeights == [xd |-> <<0, 2, 1>>, coll |-> Nested(<<1, 1>>, <<1, 0>>)]

\* small is an average of exactly the maximum, large is above it
SmallInvariants == [c |-> <<1, -1>>, dc |-> <<-1, 1>>, ddc |-> <<2, -2>>]

InvariantProfiles ==
    {SmallInvariants,
     [SmallInvariants EXCEPT !.c = <<2, -2>>],
     [SmallInvariants EXCEPT !.dc = <<-3, 0>>],
     [SmallInvariants EXCEPT !.ddc = <<3, -2>>]}

LargeInvariants == [c |-> <<2, -2>>, dc |-> <<-3, 0>>, ddc |-> <<3, -2>>]

\* balanced, balanced but for one sample of one term (by 1 and by 2), no power
PowerProfiles ==
    {[kin |-> <<2, -1>>, tether |-> <<-2, 1>>],
     [kin |-> <<3, -1>>, tether |-> <<-2, 1>>],
     [kin |-> <<4, -1>>, tether |-> <<-2, 1>>],
     [kin |-> <<0, 0>>, tether |-> <<0, 0>>]}

NoPower == [kin |-> <<0, 0>>, tether |-> <<0, 0>>]

Thresholds(tresh) ==
    [c_max |-> 1, dc_max |-> 1, ddc_max |-> 2,
     max_loyd_factor |-> 3, max_power_harvesting_factor |-> 3, max_tension |-> 6,
     t_f_min |-> 4, max_control_interval |-> 3,
     power_balance_tresh |-> tresh]

PowerTresholds == {Num(1, 10), Num(2, 1)}

\* the thresholds a trial is tested with: both where some power flows
TresholdsOf(tr) ==
    IF \E i \in 1..Len(tr.power_balance) : tr.power_balance[i].v # <<0, 0>>
    THEN PowerTresholds
    ELSE {Num(1, 10)}

\* a solved trial all of whose checks pass
SoundTrial(N, pm, disc) ==
    [discretization |-> disc,
     number_of_nodes |-> N,
     parent_map |-> pm,
     children_map |-> ChildrenFrom(N, pm, 0),
     t_f |-> <<5>>,
     n_k |-> 2,
     V_final |-> VFinal(N, pm, disc, [n \in 1..(N - 1) |-> SafeHeights]),
     output_vals |-> <<OutputVals(N, pm, disc, [n \in 1..(N - 1) |-> SmallInvariants]),
                       OutputVals(N, pm, disc, [n \in 1..(N - 1) |-> SmallInvariants])>>,
     performance |-> Performance(disc, <<1, 1>>, <<1, 1>>),
     l_t |-> <<2, 2>>,
     lambda10 |-> <<1, 1>>,
     tgrid_len |-> 2,
     power_balance |-> PowerBalance(N, [n \in 1..(N - 1) |-> NoPower], <<>>)]

\* trials that differ in the heights of their nodes
HeightTrials(N, pm, disc) ==
    LET sound == SoundTrial(N, pm, disc)
    IN  {[sound EXCEPT !.V_final = VFinal(N, pm, disc, heights)] :
            heights \in [1..(N - 1) -> HeightProfiles]}

\* trials that differ in the invariants of the solution and of the initial guess
InvariantTrials(N, pm, disc) ==
    LET sound == SoundTrial(N, pm, disc)
    IN  {[sound EXCEPT
              !.output_vals = <<OutputVals(N, pm, disc, [n \in 1..(N - 1) |-> guess]),
                                OutputVals(N, pm, disc, final)>>] :
            guess \in {SmallInvariants, LargeInvariants},
            final \in [1..(N - 1) -> InvariantProfiles]}

\* trials that differ in the final time and in the performance outputs
OutputTrials(N, pm, disc) ==
    LET sound == SoundTrial(N, pm, disc)
    IN  {[sound EXCEPT
              !.t_f = t_f,
              !.performance = Performance(disc, loyd_factor, phf),
              !.lambda10 = lambda10] :
            t_f \in {<<5>>, <<2, 1>>, <<8>>, <<4>>, <<2, 4>>},
            loyd_factor \in {<<3, 3>>, <<4, 3>>},
            phf \in {<<1, 1>>, <<6, 1>>},
            lambda10 \in {<<1, 3>>, <<4, 1>>}}

\* trials that differ in their power terms
PowerTrials(N, pm, disc) ==
    LET sound == SoundTrial(N, pm, disc)
    IN  {[sound EXCEPT !.power_balance = PowerBalance(N, power, drag)] :
            power \in [1..(N - 1) -> PowerProfiles],
            drag \in {<<>>, <<1, 1>>}}

\* trials of a wide architecture, where node 11 and node 1 both have power terms
WidePowerTrials ==
    LET N == BigNodes
    IN  {[SoundTrial(N, [n \in 1..(N - 1) |-> IF n = 11 THEN p ELSE 0],
                     "multiple_shooting") EXCEPT
              !.power_balance =
                  PowerBalance(N, [n \in 1..(N - 1) |->
                                      IF n = 1 THEN first
                                      ELSE IF n = 11 THEN eleventh
                                      ELSE NoPower], <<>>)] :
            p \in {0, 1}, first \in PowerProfiles, eleventh \in PowerProfiles}

\* the trials of the architectures of at most MaxN nodes, and the wide ones
Trials(MaxN) ==
    UNION {UNION {UNION {HeightTrials(N, pm, disc) \cup InvariantTrials(N, pm, disc)
                         \cup OutputTrials(N, pm, disc) \cup PowerTrials(N, pm, disc) :
                            disc \in Discretizations} :
                     pm \in ParentMaps(N)} :
              N \in 2..MaxN}
    \cup WidePowerTrials

(***************************************************************************)
(* The state machine of the quality tests: the five tests on one trial,    *)
(* one after the other, each on the results the one before returned.      *)
(***************************************************************************)
InitQuality ==
    /\ trial \in Trials(MaxNodes)
    /\ test_param_dict \in {Thresholds(tresh) : tresh \in TresholdsOf(trial)}
    /\ results = <<>>
    /\ balance = <<>>
    /\ pc = "test_numerics"
    /\ error = NoError
    /\ SchemaUnused
    /\ BoundsUnused
    /\ ObjectsUnused

TestNumerics ==
    /\ pc = "test_numerics"
    /\ results' = test_numerics(trial, test_param_dict, results)
    /\ pc' = "test_invariants"
    /\ UNCHANGED <<trial, test_param_dict, balance, error, schema_vars, bound_vars, object_vars>>

TestInvariants ==
    /\ pc = "test_invariants"
    /\ results' = test_invariants(trial, test_param_dict, results)
    /\ pc' = "test_outputs"
    /\ UNCHANGED <<trial, test_param_dict, balance, error, schema_vars, bound_vars, object_vars>>

TestOutputs ==
    /\ pc = "test_outputs"
    /\ results' = test_outputs(trial, test_param_dict, results)
    /\ pc' = "test_variables"
    /\ UNCHANGED <<trial, test_param_dict, balance, error, schema_vars, bound_vars, object_vars>>

TestVariables ==
    /\ pc = "test_variables"
    /\ results' = test_variables(trial, test_param_dict, results)
    /\ pc' = "test_power_balance"
    /\ UNCHANGED <<trial, test_param_dict, balance, error, schema_vars, bound_vars, object_vars>>

TestPowerBalance ==
    /\ pc = "test_power_balance"
    /\ LET out == test_power_balance(trial, test_param_dict, results)
       IN  results' = out.results /\ balance' = out.balance
    /\ pc' = "done"
    /\ UNCHANGED <<trial, test_param_dict, error, schema_vars, bound_vars, object_vars>>

NextQuality ==
    \/ TestNumerics
    \/ TestInvariants
    \/ TestOutputs
    \/ TestVariables
    \/ TestPowerBalance

SpecQuality == InitQuality /\ [][NextQuality]_vars

(***************************************************************************)
(* Claims about the quality tests (specification SpecQuality).             *)
(***************************************************************************)
AfterInvariants == pc \in {"test_outputs", "test_variables", "test_power_balance", "done"}

AfterVariables == pc \in {"test_power_balance", "done"}

Validated == pc = "done"

HasResult(key) == \E i \in 1..Len(results) : results[i].k = key

Result(key) == results[CHOOSE i \in 1..Len(results) : results[i].k = key].v

NonRootNodes == 1..(trial.number_of_nodes - 1)

DirectCollocation == trial.discretization = "direct_collocation"

\* the samples of the height of a node: V_final lists the nodes in order
HeightSamples(n) ==
    {trial.V_final.xd[n].v[k] : k \in 1..Len(trial.V_final.xd[n].v)}
    \cup (IF DirectCollocation
          THEN UNION {{trial.V_final.coll_var[n].v[k][j] :
                          j \in 1..Len(trial.V_final.coll_var[n].v[k])} :
                      k \in 1..Len(trial.V_final.coll_var[n].v)}
          ELSE {})

NegativeHeight == \E n \in NonRootNodes : \E h \in HeightSamples(n) : h < 0

\* C15: after test_variables, results['min_node_height'] is False if some
\* non-root node has a negative height at some control-interval sample or,
\* under direct collocation, at some collocation-node sample, and True
\* otherwise, for both discretizations.
C15_MinNodeHeightIffNoNegativeHeight ==
    AfterVariables =>
        /\ HasResult("min_node_height")
        /\ Result("min_node_height") = ~NegativeHeight

PowerNames == {C_P_kin, C_P_tether, C_P_tetherdrag}

\* the power terms of a node: a known name followed by the index of the node
TermsOf(node) ==
    {i \in 1..Len(trial.power_balance) :
        \E base \in PowerNames : trial.power_balance[i].k = base \o StrChars(node)}

\* the P_tether terms of the children of a node
ChildTethersOf(node) ==
    {i \in 1..Len(trial.power_balance) :
        \E child \in NonRootNodes :
            /\ trial.parent_map[child] = node
            /\ trial.power_balance[i].k = C_P_tether \o StrChars(child)}

RECURSIVE SumOfTerms(_)
SumOfTerms(S) ==
    IF S = {} THEN Zeros(trial.tgrid_len)
    ELSE LET i == CHOOSE i \in S : TRUE
         IN  [k \in 1..trial.tgrid_len |->
                 trial.power_balance[i].v[k] + SumOfTerms(S \ {i})[k]]

\* the largest absolute value of a sample of the terms S, 0 for no term
LargestOfTerms(S) ==
    LET samples == {Abs(trial.power_balance[i].v[k]) :
                        i \in S, k \in 1..trial.tgrid_len} \cup {0}
    IN  CHOOSE m \in samples : \A x \in samples : x <= m

NodeResidual(node) ==
    LET own == SumOfTerms(TermsOf(node))
        children == SumOfTerms(ChildTethersOf(node))
    IN  [k \in 1..trial.tgrid_len |-> own[k] - children[k]]

\* norm / power > tresh, for power > 0, in squares
RatioAbove(normsq, power, tresh) ==
    normsq * tresh.den * tresh.den > tresh.num * tresh.num * power * power

\* C16: for every non-root node, 'energy_balance<node>' is True exactly when
\* the norm of the sum of the power terms of that node (and of no other node)
\* minus the P_tether terms of its children, divided by the largest single
\* power term at the node, does not exceed power_balance_tresh.
C16_NodeBalanceOfOwnTerms ==
    Validated =>
        \A node \in NonRootNodes :
            LET power == LargestOfTerms(TermsOf(node) \cup ChildTethersOf(node))
                normsq == SumSq(NodeResidual(node))
            IN  /\ HasResult("energy_balance" \o Str(node))
                /\ power > 0 =>
                      Result("energy_balance" \o Str(node))
                          = ~RatioAbove(normsq, power, test_param_dict.power_balance_tresh)

BalanceOf(key) == balance[CHOOSE i \in 1..Len(balance) : balance[i].k = key].v

\* the terms of the system-wide balance: every term but the P_tether terms
\* of the nodes other than node 1
SystemTerms ==
    {i \in 1..Len(trial.power_balance) :
        ~\E node \in NonRootNodes \ {1} :
            trial.power_balance[i].k = C_P_tether \o StrChars(node)}

\* C17: the system-wide balance sums every power term except the P_tether
\* terms, of which only P_tether1 is kept (the P_tetherdrag terms are kept);
\* the norm of the sum is divided by the largest power term of any node and
\* the result is reported under 'energy_balancetotal'.
C17_SystemBalance ==
    Validated =>
        LET total == BalanceOf("total")
            power == LargestOfTerms(1..Len(trial.power_balance))
        IN  /\ total.normsq = SumSq(SumOfTerms(SystemTerms))
            /\ total.power = power
            /\ HasResult("energy_balancetotal")
            /\ power > 0 =>
                  Result("energy_balancetotal")
                      = ~RatioAbove(total.normsq, power, test_param_dict.power_balance_tresh)
            /\ power = 0 => Result("energy_balancetotal")

\* a three-node chain whose P_tether2 and P_tetherdrag1 are not zero
C17_Witness ==
    /\ Validated
    /\ trial.number_of_nodes = 3 /\ trial.parent_map[2] = 1
    /\ Len(trial.power_balance) = 5
    /\ trial.power_balance[5].v = <<-2, 1>>
    /\ trial.power_balance[4].v = <<3, -1>>
    /\ trial.power_balance[1].v = <<2, -1>>
    /\ trial.power_balance[2].v = <<-2, 1>>
    /\ BalanceOf("total").normsq = 16
    /\ BalanceOf("total").power = 3
    /\ ~Result("energy_balancetotal")

TwoNodeTree == trial.number_of_nodes = 2

\* the power terms of a two-node tree that cancel but for eps in one sample
CancelsButFor(eps) ==
    trial.power_balance
        = PowerBalance(2, <<[kin |-> <<2 + eps, -1>>, tether |-> <<-2, 1>>]>>, <<>>)

\* C18: in a two-node tree whose power terms for node 1 cancel at every
\* sample, the residual of node 1 is exactly 0 and 'energy_balance1' is True
\* for every threshold above 0; with one term changed by eps the norm of the
\* residual is |eps|.
C18_ExactCancellation ==
    (Validated /\ TwoNodeTree) =>
        /\ BalanceOf("1").normsq = SumSq(SumOfTerms(1..Len(trial.power_balance)))
        /\ \A eps \in 0..2 :
              CancelsButFor(eps) =>
                  /\ BalanceOf("1").normsq = eps * eps
                  /\ BalanceOf("1").power = 2 + eps
        /\ (CancelsButFor(0) /\ test_param_dict.power_balance_tresh.num > 0) =>
              Result("energy_balance1")

C18_Witness ==
    /\ Validated /\ TwoNodeTree /\ CancelsButFor(2)
    /\ BalanceOf("1") = [normsq |-> 4, power |-> 4]
    /\ test_param_dict.power_balance_tresh = Num(1, 10)
    /\ ~Result("energy_balance1")

EdgeChecks ==
    {kind \o Str(n) \o Str(trial.parent_map[n]) :
        kind \in {"c", "dc", "ddc"}, n \in NonRootNodes}

NodeChecks == {"energy_balance" \o Str(n) : n \in NonRootNodes}

AllChecks ==
    {"t_f_min", "max_control_interval", "loyd_factor", "power_harvesting_factor",
     "tau_max", "min_node_height", "energy_balancetotal"}
    \cup EdgeChecks \cup NodeChecks

\* C19: after the five tests the results hold a boolean for every check.
C19_EveryCheckReported ==
    Validated =>
        \A key \in AllChecks : HasResult(key) /\ Result(key) \in BOOLEAN

\* the samples of one invariant of the solution (output_vals[1]) at the
\* resolution of the discretization; the table lists c, dc, ddc node by node
FinalInvariant(n, kind) ==
    LET at == 3 * (n - 1) + kind
    IN  IF DirectCollocation
        THEN Flatten(trial.output_vals[2].coll_outputs[at].v)
        ELSE trial.output_vals[2].outputs[at].v

RECURSIVE AbsTotal(_)
AbsTotal(xs) ==
    IF xs = <<>> THEN 0
    ELSE (IF Head(xs) < 0 THEN -Head(xs) ELSE Head(xs)) + AbsTotal(Tail(xs))

WithinOnAverage(xs, limit) == AbsTotal(xs) <= limit * Len(xs)

\* C20: for every edge, test_invariants sets 'c<node><parent>',
\* 'dc<node><parent>' and 'ddc<node><parent>' to True exactly when the
\* average absolute value of the series of the solution is not greater than
\* c_max, dc_max and ddc_max; the series of the initial guess play no part.
C20_InvariantsOfTheSolution ==
    AfterInvariants =>
        \A n \in NonRootNodes :
            LET edge == Str(n) \o Str(trial.parent_map[n])
            IN  /\ HasResult("c" \o edge) /\ HasResult("dc" \o edge)
                /\ HasResult("ddc" \o edge)
                /\ Result("c" \o edge)
                       = WithinOnAverage(FinalInvariant(n, 1), test_param_dict.c_max)
                /\ Result("dc" \o edge)
                       = WithinOnAverage(FinalInvariant(n, 2), test_param_dict.dc_max)
                /\ Result("ddc" \o edge)
                       = WithinOnAverage(FinalInvariant(n, 3), test_param_dict.ddc_max)

\* the initial guess is above every maximum, the solution is not, but for
\* ddc of node 2
C20_Witness ==
    /\ AfterInvariants
    /\ DirectCollocation
    /\ trial.number_of_nodes = 3
    /\ trial.output_vals[1].coll_outputs[1].v = Nested(<<2, -2>>, <<0, 0>>)
    /\ trial.output_vals[2].coll_outputs[1].v = Nested(<<1, -1>>, <<0, 0>>)
    /\ trial.output_vals[2].coll_outputs[6].v = Nested(<<3, -2>>, <<0, 0>>)
    /\ Result("c10") /\ Result("dc10") /\ Result("ddc10")

AfterNumerics == pc # "test_numerics"

AfterOutputs == pc \in {"test_variables", "test_power_balance", "done"}

RECURSIVE Total(_)
Total(xs) == IF Len(xs) = 0 THEN 0 ELSE xs[1] + Total(SubSeq(xs, 2, Len(xs)))

\* C21: test_numerics sets 't_f_min' to True exactly when the sum of the t_f
\* entries is at least t_f_min, and 'max_control_interval' to True exactly
\* when that sum divided by n_k is at most max_control_interval; equality
\* passes in both.
C21_HorizonChecks ==
    AfterNumerics =>
        /\ HasResult("t_f_min") /\ HasResult("max_control_interval")
        /\ Result("t_f_min") = (Total(trial.t_f) >= test_param_dict.t_f_min)
        /\ Result("max_control_interval")
               = (Total(trial.t_f) <= test_param_dict.max_control_interval * trial.n_k)

\* two phases whose sum is exactly max_control_interval * n_k
C21_Witness ==
    /\ AfterNumerics
    /\ trial.t_f = <<2, 4>>
    /\ Total(trial.t_f) = test_param_dict.max_control_interval * trial.n_k
    /\ Result("max_control_interval") /\ Result("t_f_min")

\* the samples of a performance output of the solution, at the resolution
\* of the discretization; the table lists loyd_factor, then phf
PerformanceSamples(at) ==
    IF DirectCollocation
    THEN Flatten(trial.performance.coll_outputs[at].v)
    ELSE trial.performance.outputs[at].v

PeakTension ==
    LET products == {trial.l_t[k] * trial.lambda10[k] : k \in 1..Len(trial.l_t)}
    IN  CHOOSE m \in products : \A x \in products : x <= m

\* C22: test_outputs sets 'tau_max' to True exactly when the peak of l_t times
\* lambda10 is at most max_tension, 'loyd_factor' exactly when the average
\* Loyd factor is at most max_loyd_factor and 'power_harvesting_factor'
\* exactly when the average power-harvesting factor is at most
\* max_power_harvesting_factor.
C22_OutputChecks ==
    AfterOutputs =>
        /\ HasResult("tau_max") /\ HasResult("loyd_factor")
        /\ HasResult("power_harvesting_factor")
        /\ Result("tau_max") = (PeakTension <= test_param_dict.max_tension)
        /\ Result("loyd_factor")
               = (Total(PerformanceSamples(1))
                      <= test_param_dict.max_loyd_factor * Len(PerformanceSamples(1)))
        /\ Result("power_harvesting_factor")
               = (Total(PerformanceSamples(2))
                      <= test_param_dict.max_power_harvesting_factor
                             * Len(PerformanceSamples(2)))

\* the tension peaks above the maximum in the first sample only, the Loyd
\* factor is on average exactly the maximum
C22_Witness ==
    /\ AfterOutputs
    /\ trial.lambda10 = <<4, 1>> /\ trial.l_t = <<2, 2>>
    /\ PerformanceSamples(1) \in {<<3, 3>>, <<3, 3, 3, 3>>}
    /\ PerformanceSamples(2) \in {<<6, 1>>, <<6, 1, 6, 1>>}
    /\ ~Result("tau_max") /\ Result("loyd_factor")
    /\ ~Result("power_harvesting_factor")

(***************************************************************************)
(* The NLP object (ocp/nlp.py).                                            *)
(*                                                                         *)
(* The object is the record of its private attributes; an attribute that   *)
(* no assignment has made yet is None.  The transcription, the bounds and *)
(* the cost functions come from collaborators: what they return is a      *)
(* token of the arguments they were called with, and each of them can     *)
(* raise.  A duration (time.time() - timer) is any value of Durations.    *)
(***************************************************************************)
\* the bound of the number of calls on one object and in one sweep
MaxCalls == 3

NLP_Unbuilt == "NLP not yet built."
NLP_Built == "I am an NLP."
Model_Built == "I am a model."
Formulation_Built == "I am a formulation."

\* NLP.__init__: only the status and the timings exist (and Outputs = None)
NLP_init ==
    [status |-> NLP_Unbuilt, V |-> None, n_k |-> None, options |-> None,
     discretization |-> None, V_bounds |-> None, f_fun |-> None,
     timings |-> <<>>]

\* the arguments of build
NlpOptions == [n_k : {2, 3},
               discretization : {"direct_collocation", "multiple_shooting"}]

Models == [status : {Model_Built, "Model not yet built."}, n_vars : {1, 2}]

Formulations == [status : {Formulation_Built, "Formulation not yet built."}]

Durations == {1, 2}

\* where a call of build can fail in a collaborator
Outcomes == {"ok", "discretization", "bounds", "objective"}

CollaboratorError(where) == [type |-> "RuntimeError", args |-> <<where>>]

\* discretization.discretize: the variables of the transcribed problem
discretize(nlp_options, model, formulation) ==
    [n_k |-> nlp_options.n_k, n_vars |-> model.n_vars,
     discretization |-> nlp_options.discretization]

\* var_bounds.get_variable_bounds
get_variable_bounds(nlp_options, V, model) == [lb |-> <<"lb", V>>, ub |-> <<"ub", V>>]

\* objective.get_cost_function_and_structure
get_cost_function(nlp_options, V, model) == <<"f", V>>

\* the result of a call: the object afterwards, the exception and the log
Outcome(self, raised, log) == [self |-> self, raised |-> raised, log |-> log]

\* NLP.__generate_discretization
generate_discretization(self, nlp_options, model, formulation, outcome, dt) ==
    IF outcome = "discretization"
    THEN Outcome(self, CollaboratorError("discretize"), <<"discretize problem... ">>)
    ELSE Outcome([self EXCEPT
                     !.timings = DictSet(@, "discretization", dt),
                     !.V = discretize(nlp_options, model, formulation),
                     !.n_k = nlp_options.n_k,
                     !.options = nlp_options,
                     !.discretization = nlp_options.discretization],
                 NoError, <<"discretize problem... ">>)

\* NLP.__generate_variable_bounds
generate_variable_bounds(self, nlp_options, model, outcome) ==
    IF outcome = "bounds"
    THEN Outcome(self, CollaboratorError("get_variable_bounds"),
                 <<"generate variable bounds...">>)
    ELSE Outcome([self EXCEPT
                     !.V_bounds = get_variable_bounds(nlp_options, self.V, model)],
                 NoError, <<"generate variable bounds...">>)

\* NLP.__generate_objective
generate_objective(self, nlp_options, model, outcome, dt) ==
    IF outcome = "objective"
    THEN Outcome(self, CollaboratorError("get_cost_function_and_structure"),
                 <<"generate objective... ">>)
    ELSE Outcome([self EXCEPT
                     !.timings = DictSet(@, "objective", dt),
                     !.f_fun = get_cost_function(nlp_options, self.V, model)],
                 NoError, <<"generate objective... ">>)

\* the three steps of a build, each on the object the one before left, up
\* to the first that raises
GenerateAll(self, nlp_options, model, formulation, outcome, dt) ==
    LET d == generate_discretization(self, nlp_options, model, formulation,
                                     outcome, dt)
        b == generate_variable_bounds(d.self, nlp_options, model, outcome)
        o == generate_objective(b.self, nlp_options, model, outcome, dt)
    IN  IF d.raised # NoError THEN d
        ELSE IF b.raised # NoError THEN Outcome(b.self, b.raised, d.log \o b.log)
        ELSE Outcome(o.self, o.raised, d.log \o b.log \o o.log)

\* a build that takes an NLP already built for one not yet built
NLP_AlreadyBuilt_Never(self) == FALSE

\* the branch of build that an NLP already built takes
NLP_AlreadyBuilt(self) == self.status = NLP_Built

\* a build that looks at the model only
PrerequisitesBuilt_ModelOnly(model, formulation) == model.status = Model_Built

\* the condition of the branch that builds
PrerequisitesBuilt(model, formulation) ==
    model.status = Model_Built /\ formulation.status = Formulation_Built

\* NLP.build
NLP_build(self, nlp_options, model, formulation, outcome, dt) ==
    IF NLP_AlreadyBuilt(self)
    THEN Outcome(self, NoError, <<"Building NLP...", "NLP already built.">>)
    ELSE IF PrerequisitesBuilt(model, formulation)
    THEN LET g == GenerateAll(self, nlp_options, model, formulation, outcome, dt)
         IN  IF g.raised # NoError
             THEN Outcome(g.self, g.raised, <<"Building NLP...">> \o g.log)
             ELSE Outcome([g.self EXCEPT
                              !.status = NLP_Built,
                              !.timings = DictSet(@, "overall", dt)],
                          NoError,
                          <<"Building NLP...">> \o g.log
                              \o <<"NLP built.", "NLP construction time">>)
    ELSE Outcome(self,
                 [type |-> "ValueError",
                  args |-> <<"Cannot build NLP without first building model and formulation.">>],
                 <<"Building NLP...">>)

\* the properties of NLP with a setter, and the one without
NLP_Guarded == {"status", "V", "V_bounds", "n_k", "options", "discretization",
                "f_jacobian_fun", "timings"}

NLP_ReadOnly == {"Multiple_shooting"}

\* a setter of status that stores the value
NLP_Stored_Assigns(self, name, value) ==
    IF name = "status" THEN [self EXCEPT !.status = value] ELSE self

\* what a setter of NLP stores: nothing
NLP_Stored(self, name, value) == self

\* the warning of a setter (the one of V_bounds has no full stop)
NLP_Warning(name) ==
    "Cannot set " \o name \o (IF name = "V_bounds" THEN " object" ELSE " object.")

\* an assignment nlp.<name> = value from outside the class
NLP_setattr(self, name, value) ==
    IF name \in NLP_ReadOnly
    THEN Outcome(self, [type |-> "AttributeError", args |-> <<"can't set attribute">>],
                 <<>>)
    ELSE Outcome(NLP_Stored(self, name, value), NoError,
                 <<NLP_Warning(name)>>)

AssignedValues == {NLP_Built, NLP_Unbuilt, "anything"}

\* the calls on an NLP, with the object they found
BuildCall(before, nlp_options, model, formulation, out) ==
    [op |-> "build", before |-> before, nlp_options |-> nlp_options,
     model |-> model, formulation |-> formulation,
     raised |-> out.raised, log |-> out.log]

SetCall(before, name, value, out) ==
    [op |-> "set", before |-> before, name |-> name, value |-> value,
     raised |-> out.raised, log |-> out.log]

NoCall == [op |-> "none"]

TrialUnused == trial_obj = None

SweepUnused ==
    heap = None /\ base_options = None /\ returned = None /\ sweep = None

InitNLP ==
    /\ nlp = NLP_init
    /\ call = NoCall
    /\ n_calls = 0
    /\ pc = "nlp"
    /\ error = NoError
    /\ TrialUnused /\ SweepUnused
    /\ SchemaUnused /\ BoundsUnused /\ QualityUnused

Build ==
    /\ pc = "nlp"
    /\ n_calls < MaxCalls
    /\ \E nlp_options \in NlpOptions, model \in Models,
          formulation \in Formulations, outcome \in Outcomes, dt \in Durations :
          LET out == NLP_build(nlp, nlp_options, model, formulation, outcome, dt)
          IN  /\ nlp' = out.self
              /\ call' = BuildCall(nlp, nlp_options, model, formulation, out)
    /\ n_calls' = n_calls + 1
    /\ UNCHANGED <<pc, error, trial_obj, sweep_vars,
                   schema_vars, bound_vars, quality_vars>>

SetProperty ==
    /\ pc = "nlp"
    /\ n_calls < MaxCalls
    /\ \E name \in NLP_Guarded \cup NLP_ReadOnly, value \in AssignedValues :
          LET out == NLP_setattr(nlp, name, value)
          IN  /\ nlp' = out.self
              /\ call' = SetCall(nlp, name, value, out)
    /\ n_calls' = n_calls + 1
    /\ UNCHANGED <<pc, error, trial_obj, sweep_vars,
                   schema_vars, bound_vars, quality_vars>>

NextNLP == Build \/ SetProperty

SpecNLP == InitNLP /\ [][NextNLP]_vars

(***************************************************************************)
(* Claims about the NLP object.                                            *)
(***************************************************************************)
\* the last call was a build, on an NLP of the given status
BuildOn(status) == call.op = "build" /\ call.before.status = status

\* C23: a build of an NLP whose status is already 'I am an NLP.' only logs:
\* whatever the arguments, it raises nothing, runs none of the three
\* generation steps, and leaves the status, the variables, the bounds and
\* the timings (every attribute) as they were
C23_BuildIsIdempotent ==
    BuildOn("I am an NLP.") =>
        /\ call.raised.type = ""
        /\ call.log = <<"Building NLP...", "NLP already built.">>
        /\ nlp = call.before

\* a second build with an unbuilt model, an unbuilt formulation and another
\* n_k than the one the NLP was built with
C23_Witness ==
    /\ BuildOn("I am an NLP.")
    /\ call.model.status = "Model not yet built."
    /\ call.formulation.status = "Formulation not yet built."
    /\ call.nlp_options.n_k = 3 /\ nlp.n_k = 2
    /\ nlp.status = "I am an NLP."

\* the model or the formulation of the last build was not built
PrerequisiteMissing ==
    \/ call.model.status # "I am a model."
    \/ call.formulation.status # "I am a formulation."

\* what a first build that failed on its prerequisites leaves
FailedWith(type) ==
    /\ call.raised.type = type
    /\ nlp.status = "NLP not yet built."
    /\ nlp = call.before

\* C24 (as the code has it): a build of a not-yet-built NLP with a model or
\* a formulation that is not built raises ValueError; the status stays 'NLP
\* not yet built.' and no discretization, bounds or objective are stored
C24_RaisesValueError ==
    (BuildOn("NLP not yet built.") /\ PrerequisiteMissing) => FailedWith("ValueError")

\* the first build of a fresh NLP, with a built model and an unbuilt
\* formulation
C24_Witness ==
    /\ BuildOn("NLP not yet built.")
    /\ n_calls = 1
    /\ call.model.status = "I am a model."
    /\ call.formulation.status = "Formulation not yet built."
    /\ call.raised.type = "ValueError"
    /\ nlp.V = None /\ nlp.V_bounds = None /\ nlp.f_fun = None

\* C24 (as stated): the same build fails with a SequencingError
C24_RaisesSequencingError ==
    (BuildOn("NLP not yet built.") /\ PrerequisiteMissing)
        => FailedWith("SequencingError")

\* the steps the last call logged
Logged(message) == \E i \in 1..Len(call.log) : call.log[i] = message

\* the last call ran the three generation steps and none raised
AllGenerated ==
    /\ call.op = "build"
    /\ call.raised.type = ""
    /\ Logged("discretize problem... ")
    /\ Logged("generate variable bounds...")
    /\ Logged("generate objective... ")
    /\ nlp.V # None /\ nlp.V_bounds # None /\ nlp.f_fun # None

\* C27: the status of an NLP starts as 'NLP not yet built.', changes only
\* to 'I am an NLP.' and only in a build whose three generation steps all
\* completed, never changes back, and an assignment to a property with a
\* setter (status, V, V_bounds, n_k, ...) only logs a warning
C27_StatusIsMonotone ==
    /\ nlp.status \in {"NLP not yet built.", "I am an NLP."}
    /\ n_calls = 0 => nlp.status = "NLP not yet built."
    /\ call.op # "none" =>
          /\ call.before.status = "I am an NLP." => nlp.status = "I am an NLP."
          /\ nlp.status # call.before.status => AllGenerated
          /\ (call.op = "set" /\ call.name # "Multiple_shooting") =>
                /\ nlp = call.before
                /\ call.raised.type = ""
                /\ Len(call.log) = 1

\* the status of a built NLP is assigned 'NLP not yet built.', after a
\* build that failed in the bound generation and one that completed
C27_Witness ==
    /\ n_calls = 3
    /\ call.op = "set" /\ call.name = "status"
    /\ call.value = "NLP not yet built."
    /\ call.before.status = "I am an NLP."
    /\ nlp.status = "I am an NLP."
    /\ DictKeys(nlp.timings) = <<"discretization", "objective", "overall">>

(***************************************************************************)
(* The Trial object (trial.py).                                            *)
(*                                                                         *)
(* The object is the record of its components; attrs is the set of the     *)
(* names in the instance dictionary (the private names are mangled:        *)
(* self.__name is _Trial__name), extra holds the attributes assigned from  *)
(* outside under a new name.  The components other than the NLP are        *)
(* collaborators: of them only the flags that build, solve, recalibrate    *)
(* and check_quality set are kept, and each of their calls can raise.      *)
(***************************************************************************)
Private(name) == "_Trial__" \o name

AttributeError(name) == [type |-> "AttributeError", args |-> <<name>>]

\* the seeds of a Trial: an Options object, the dict of a saved trial, or
\* anything else
OptionsOf(discretization, save_trial) ==
    [built |-> FALSE,
     nlp |-> [n_k |-> 2, discretization |-> discretization],
     solver |-> [save_trial |-> save_trial]]

Seeds ==
    {[type |-> type, options |-> OptionsOf(discretization, save_trial)] :
        type \in {"Options", "dict"},
        discretization \in {"direct_collocation", "multiple_shooting"},
        save_trial \in BOOLEAN}
    \cup {[type |-> "str", options |-> OptionsOf("direct_collocation", FALSE)]}

\* the object before __init__ has assigned anything: the class attribute
\* __isfrozen is False
Trial_new ==
    [seed |-> "", isfrozen |-> FALSE, attrs |-> {}, extra |-> <<>>,
     options |-> None, model |-> None, formulation |-> None, nlp |-> None,
     optimization |-> None, visualization |-> None, quality |-> None,
     name |-> "", save_flag |-> FALSE, solution_dict |-> "none",
     timings |-> {}]

Optimization_init == [built |-> FALSE, solved |-> FALSE, solve_succeeded |-> FALSE]

Visualization_init == [built |-> FALSE, recalibrated |-> FALSE]

Quality_init == [built |-> FALSE, checked |-> FALSE]

\* an object that is never frozen
freeze_Not(self) == self

\* Trial._freeze
freeze(self) == [self EXCEPT !.isfrozen = TRUE, !.attrs = @ \cup {Private("isfrozen")}]

\* Trial.__init__
Trial_init(seed, name) ==
    IF seed.type = "dict"
    THEN [Trial_new EXCEPT
             !.seed = "dict",
             !.solution_dict = "seed",
             !.visualization = Visualization_init,
             !.options = [seed.options EXCEPT !.built = TRUE],
             !.attrs = {Private("solution_dict"), Private("visualization"),
                        Private("options")}]
    ELSE IF seed.type = "Options"
    THEN freeze([Trial_new EXCEPT
             !.seed = "Options",
             !.options = seed.options,
             !.model = [status |-> "Model not yet built.", n_vars |-> 1],
             !.formulation = [status |-> "Formulation not yet built."],
             !.nlp = NLP_init,
             !.optimization = Optimization_init,
             !.visualization = Visualization_init,
             !.quality = Quality_init,
             !.name = name,
             !.solution_dict = "empty",
             !.attrs = {Private(a) : a \in
                          {"options", "model", "formulation", "nlp", "simulation",
                           "optimization", "visualization", "quality", "name",
                           "type", "status", "timings", "solution_dict",
                           "save_flag", "return_status_numeric"}}])
    ELSE [Trial_new EXCEPT !.seed = seed.type]

\* the stages of Trial.build, in the order of the calls
BuildOrder_QualityBeforeVisualization ==
    <<"options", "model", "formulation", "nlp", "optimization", "quality",
      "visualization">>

BuildOrder ==
    <<"options", "model", "formulation", "nlp", "optimization", "visualization",
      "quality">>

\* the private attributes a stage of build reads
StageNeeds(stage) ==
    CASE stage = "options" -> {"options"}
      [] stage = "model" -> {"model", "options"}
      [] stage = "formulation" -> {"formulation", "options", "model"}
      [] stage = "nlp" -> {"nlp", "options", "model", "formulation"}
      [] stage = "optimization" -> {"optimization", "options", "nlp", "model",
                                    "formulation", "name"}
      [] stage = "visualization" -> {"visualization", "model", "nlp", "name",
                                     "options"}
      [] stage = "quality" -> {"quality", "options", "name"}

Missing(self, names) == {a \in names : Private(a) \notin self.attrs}

\* one stage of Trial.build: the build of one component
BuildStage(self, stage, outcome) ==
    IF Missing(self, StageNeeds(stage)) # {}
    THEN Outcome(self, AttributeError(stage), <<>>)
    ELSE IF stage = "nlp"
    THEN LET out == NLP_build(self.nlp, self.options.nlp, self.model,
                              self.formulation,
                              IF outcome = "nlp" THEN "bounds" ELSE "ok", 1)
         IN  Outcome([self EXCEPT !.nlp = out.self], out.raised, <<stage>>)
    ELSE IF outcome = stage
    THEN Outcome(self, CollaboratorError(stage), <<stage>>)
    ELSE Outcome(
           CASE stage = "options" -> [self EXCEPT !.options.built = TRUE]
             [] stage = "model" -> [self EXCEPT !.model.status = Model_Built]
             [] stage = "formulation" ->
                    [self EXCEPT !.formulation.status = Formulation_Built]
             [] stage = "optimization" -> [self EXCEPT !.optimization.built = TRUE]
             [] stage = "visualization" -> [self EXCEPT !.visualization.built = TRUE]
             [] stage = "quality" -> [self EXCEPT !.quality.built = TRUE],
           NoError, <<stage>>)

\* the stages from the i-th on, up to the first that raises
RECURSIVE BuildFrom(_, _, _)
BuildFrom(order, outcome, loop) ==
    IF loop.i > Len(order) \/ loop.raised # NoError
    THEN Outcome(loop.self, loop.raised, loop.log)
    ELSE LET out == BuildStage(loop.self, order[loop.i], outcome)
         IN  BuildFrom(order, outcome,
                       [i |-> loop.i + 1, self |-> out.self,
                        raised |-> out.raised, log |-> loop.log \o out.log])

\* Trial.build
Trial_build(self, outcome) ==
    IF Missing(self, {"name", "options"}) # {}
    THEN Outcome(self, AttributeError("name"), <<>>)
    ELSE LET out == BuildFrom(BuildOrder, outcome,
                              [i |-> 1, self |-> self, raised |-> NoError,
                               log |-> <<>>])
         IN  IF out.raised # NoError THEN out
             ELSE Outcome([out.self EXCEPT !.timings = @ \cup {"construction"}],
                          NoError, out.log)

\* a save that resets every trial
ResetsOnSave_Always(self) == TRUE

\* the condition of the reset in Trial.save_to_awe
ResetsOnSave(self) == self.options.nlp.discretization = "multiple_shooting"

\* Trial.save_to_awe
save_to_awe(self) ==
    IF Missing(self, {"options"}) # {}
    THEN Outcome(self, AttributeError("options"), <<"save_to_awe">>)
    ELSE Outcome(IF ResetsOnSave(self)
                 THEN [self EXCEPT
                          !.nlp = NLP_init,
                          !.optimization = Optimization_init,
                          !.visualization = Visualization_init,
                          !.attrs = @ \cup {Private("nlp"), Private("optimization"),
                                            Private("visualization")}]
                 ELSE self,
                 NoError, <<"save_to_awe">>)

\* Trial.generate_solution_dict raises where an attribute it reads is missing:
\* the cost components of an NLP exist only after its objective was generated
SolutionMissing(self) ==
    \/ Missing(self, {"optimization", "name", "options", "nlp"}) # {}
    \/ self.nlp.f_fun = None

\* Trial.save_to_dict
save_to_dict(self) ==
    IF SolutionMissing(self)
    THEN Outcome(self, AttributeError("generate_solution_dict"), <<"save_to_dict">>)
    ELSE IF Missing(self, {"visualization"}) # {}
    THEN Outcome(self, AttributeError("visualization"), <<"save_to_dict">>)
    ELSE Outcome(self, NoError, <<"save_to_dict">>)

SavingMethods == {"awe", "dict", "csv"}

\* Trial.save
Trial_save(self, saving_method) ==
    IF Missing(self, {"name"}) # {}
    THEN Outcome(self, AttributeError("name"), <<>>)
    ELSE IF saving_method = "awe" THEN save_to_awe(self)
    ELSE IF saving_method = "dict" THEN save_to_dict(self)
    ELSE Outcome(self, NoError, <<"not a supported saving method">>)

\* how the calls of optimize on the collaborators can end
SolveOutcomes == {"succeeded", "failed", "solve raises", "recalibrate raises"}

\* self.__save_flag = save_flag, through __setattr__ of an object with the
\* attribute or not frozen
SetSaveFlag(self, save_flag) ==
    [self EXCEPT !.save_flag = save_flag, !.attrs = @ \cup {Private("save_flag")}]

\* Trial.optimize from the call of solve on
Solve(self, outcome) ==
    IF Missing(self, {"optimization", "nlp", "model", "formulation",
                      "visualization"}) # {}
    THEN Outcome(self, AttributeError("optimization"), <<>>)
    ELSE IF outcome = "solve raises"
    THEN Outcome(self, CollaboratorError("solve"), <<"solve">>)
    ELSE LET solved == [self EXCEPT
                           !.optimization.solved = TRUE,
                           !.optimization.solve_succeeded = (outcome = "succeeded")]
         IN  IF SolutionMissing(solved)
             THEN Outcome(solved, AttributeError("generate_solution_dict"),
                          <<"solve", "generate_solution_dict">>)
             ELSE Outcome([solved EXCEPT !.solution_dict = "solution",
                                         !.timings = @ \cup {"optimization"}],
                          NoError, <<"solve", "generate_solution_dict">>)

Recalibrate(self, outcome) ==
    IF outcome = "recalibrate raises"
    THEN Outcome(self, CollaboratorError("recalibrate"), <<"recalibrate">>)
    ELSE Outcome([self EXCEPT !.visualization.recalibrated = TRUE], NoError,
                 <<"recalibrate">>)

CheckQuality(self) ==
    IF Missing(self, {"quality"}) # {}
    THEN Outcome(self, AttributeError("quality"), <<>>)
    ELSE Outcome([self EXCEPT !.quality.checked = TRUE], NoError,
                 <<"check_quality">>)

SaveIfSet(self) ==
    IF self.save_flag = TRUE \/ self.options.solver.save_trial = TRUE
    THEN LET out == Trial_save(self, "dict")
         IN  Outcome(out.self, out.raised, <<"save">> \o out.log)
    ELSE Outcome(self, NoError, <<>>)

\* Trial.optimize
Trial_optimize(self, outcome, save_flag) ==
    IF Missing(self, {"options"}) # {}
    THEN Outcome(self, AttributeError("options"), <<>>)
    ELSE LET flagged == SetSaveFlag(self, save_flag)
         IN  IF Missing(flagged, {"name"}) # {}
             THEN Outcome(flagged, AttributeError("name"), <<>>)
             ELSE LET s == Solve(flagged, outcome)
                      r == Recalibrate(s.self, outcome)
                      q == CheckQuality(r.self)
                      v == SaveIfSet(q.self)
                  IN  IF s.raised # NoError THEN s
                      ELSE IF r.raised # NoError
                      THEN Outcome(r.self, r.raised, s.log \o r.log)
                      ELSE IF q.raised # NoError
                      THEN Outcome(q.self, q.raised, s.log \o r.log \o q.log)
                      ELSE Outcome(v.self, v.raised,
                                   s.log \o r.log \o q.log \o v.log)

\* the public properties of Trial (all have a setter) and what their getters
\* read
Trial_Properties ==
    {"options", "status", "model", "nlp", "optimization", "formulation", "type",
     "name", "timings", "simulation", "visualization", "quality",
     "return_status_numeric"}

GetterReads(property) ==
    IF property = "status" THEN {"model", "nlp", "optimization", "simulation"}
    ELSE {property}

\* hasattr(self, key): an instance attribute, or a property whose getter
\* does not raise AttributeError
Trial_hasattr(self, key) ==
    \/ key \in self.attrs
    \/ DictHas(self.extra, key)
    \/ key \in Trial_Properties /\ Missing(self, GetterReads(key)) = {}

\* a setter of name that stores the value
Trial_Set_Assigns(self, key, value) ==
    IF key = "name" THEN [self EXCEPT !.name = value] ELSE self

\* object.__setattr__ on a property calls its setter, which only prints
Trial_Set(self, key, value) == self

\* Trial.__setattr__, for an assignment trial.<key> = value
Trial_setattr(self, key, value) ==
    IF self.isfrozen /\ ~Trial_hasattr(self, key)
    THEN Outcome(self, [type |-> "TypeError", args |-> <<"is a frozen class">>], <<>>)
    ELSE IF key \in Trial_Properties
    THEN Outcome(Trial_Set(self, key, value), NoError,
                 <<"Cannot set " \o key \o " object.">>)
    ELSE IF key = Private("name")
    THEN Outcome([self EXCEPT !.name = value, !.attrs = @ \cup {key}], NoError, <<>>)
    ELSE Outcome([self EXCEPT !.extra = DictSet(@, key, value)], NoError, <<>>)

\* the names assigned from outside: properties, a private attribute, and
\* names the class does not know
AssignedKeys == {"options", "status", "model", "nlp", "name", Private("name"),
                 "notes", "Name"}

TrialCall(op, before, args, out) ==
    [op |-> op, before |-> before, args |-> args, raised |-> out.raised,
     log |-> out.log]

InitTrial ==
    /\ trial_obj \in {Trial_init(seed, "trial") : seed \in Seeds}
    /\ call = NoCall
    /\ n_calls = 0
    /\ pc = "trial"
    /\ error = NoError
    /\ nlp = None /\ SweepUnused
    /\ SchemaUnused /\ BoundsUnused /\ QualityUnused

TrialBuild ==
    /\ pc = "trial"
    /\ n_calls < MaxCalls
    /\ \E outcome \in {"ok"} \cup {BuildOrder[i] : i \in 1..Len(BuildOrder)} :
          LET out == Trial_build(trial_obj, outcome)
          IN  /\ trial_obj' = out.self
              /\ call' = TrialCall("build", trial_obj, <<>>, out)
    /\ n_calls' = n_calls + 1
    /\ UNCHANGED <<pc, error, nlp, sweep_vars,
                   schema_vars, bound_vars, quality_vars>>

TrialOptimize ==
    /\ pc = "trial"
    /\ n_calls < MaxCalls
    /\ \E outcome \in SolveOutcomes, save_flag \in BOOLEAN :
          LET out == Trial_optimize(trial_obj, outcome, save_flag)
          IN  /\ trial_obj' = out.self
              /\ call' = TrialCall("optimize", trial_obj, <<outcome, save_flag>>, out)
    /\ n_calls' = n_calls + 1
    /\ UNCHANGED <<pc, error, nlp, sweep_vars,
                   schema_vars, bound_vars, quality_vars>>

TrialSave ==
    /\ pc = "trial"
    /\ n_calls < MaxCalls
    /\ \E saving_method \in SavingMethods :
          LET out == Trial_save(trial_obj, saving_method)
          IN  /\ trial_obj' = out.self
              /\ call' = TrialCall("save", trial_obj, <<saving_method>>, out)
    /\ n_calls' = n_calls + 1
    /\ UNCHANGED <<pc, error, nlp, sweep_vars,
                   schema_vars, bound_vars, quality_vars>>

TrialSetAttr ==
    /\ pc = "trial"
    /\ n_calls < MaxCalls
    /\ \E key \in AssignedKeys :
          LET out == Trial_setattr(trial_obj, key, "renamed")
          IN  /\ trial_obj' = out.self
              /\ call' = TrialCall("setattr", trial_obj, <<key, "renamed">>, out)
    /\ n_calls' = n_calls + 1
    /\ UNCHANGED <<pc, error, nlp, sweep_vars,
                   schema_vars, bound_vars, quality_vars>>

NextTrial == TrialBuild \/ TrialOptimize \/ TrialSave \/ TrialSetAttr

SpecTrial == InitTrial /\ [][NextTrial]_vars

(***************************************************************************)
(* Claims about the Trial object.                                          *)
(***************************************************************************)
Called(op) == call.op = op

Completed(op) == call.op = op /\ call.raised.type = ""

\* the position of a step in what the last call did (0: not done)
StepOf(step) ==
    IF \E i \in 1..Len(call.log) : call.log[i] = step
    THEN CHOOSE i \in 1..Len(call.log) : call.log[i] = step
    ELSE 0

Before(first, second) == 0 < StepOf(first) /\ StepOf(first) < StepOf(second)

StagesInOrder ==
    <<"options", "model", "formulation", "nlp", "optimization", "visualization",
      "quality">>

\* C26: Trial.build builds the stages in the order options, model,
\* formulation, NLP, optimization, visualization, quality (all of them when
\* nothing raises, the first ones up to the stage that raises otherwise);
\* in Trial.optimize the quality check runs only after the solve and the
\* recalibration of the visualization, runs for a solve that succeeded and
\* for one that failed, and runs before the trial is saved
C26_StagesInOrder ==
    /\ Called("build") =>
          /\ Len(call.log) <= 7
          /\ \A i \in 1..Len(call.log) : call.log[i] = StagesInOrder[i]
          /\ Completed("build") => Len(call.log) = 7
    /\ Called("optimize") =>
          /\ StepOf("check_quality") > 0 =>
                Before("solve", "check_quality") /\ Before("recalibrate", "check_quality")
          /\ Completed("optimize") => StepOf("check_quality") > 0
          /\ StepOf("save") > 0 => Before("check_quality", "save")
          /\ StepOf("check_quality") > 0 =>
                /\ trial_obj.optimization.solved
                /\ trial_obj.visualization.recalibrated
                /\ trial_obj.quality.checked

\* a built trial is optimized, the solve fails, and the trial is saved
\* after the quality check
C26_Witness ==
    /\ Completed("optimize")
    /\ call.args = <<"failed", TRUE>>
    /\ ~trial_obj.optimization.solve_succeeded
    /\ call.log = <<"solve", "generate_solution_dict", "recalibrate",
                    "check_quality", "save", "save_to_dict">>
    /\ call.before.quality.built /\ ~call.before.quality.checked
    /\ "construction" \in trial_obj.timings

\* the names of the instance dictionary of a trial constructed from Options
OptionsTrialNames ==
    {"_Trial__" \o a : a \in
        {"options", "model", "formulation", "nlp", "simulation", "optimization",
         "visualization", "quality", "name", "type", "status", "timings",
         "solution_dict", "save_flag", "return_status_numeric", "isfrozen"}}

PublicProperties ==
    {"options", "status", "model", "nlp", "optimization", "formulation", "type",
     "name", "timings", "simulation", "visualization", "quality",
     "return_status_numeric"}

AssignedKey == call.args[1]

\* C28: a Trial constructed from an Options object is frozen from the end
\* of its construction on: an assignment to an attribute it does not have
\* raises TypeError and leaves the object unchanged, an assignment to an
\* attribute it has is allowed and stores the value, an assignment to a
\* public property leaves every component unchanged; a Trial constructed
\* from a dict is never frozen and takes a new attribute
C28_FrozenAfterConstruction ==
    /\ trial_obj.seed = "Options" =>
          /\ trial_obj.isfrozen
          /\ Called("setattr") =>
                /\ (AssignedKey \notin OptionsTrialNames \cup PublicProperties
                       /\ \A i \in 1..Len(call.before.extra) :
                              call.before.extra[i].k # AssignedKey) =>
                      call.raised.type = "TypeError" /\ trial_obj = call.before
                /\ AssignedKey = "_Trial__name" =>
                      /\ call.raised.type = ""
                      /\ trial_obj.name = call.args[2]
                      /\ trial_obj = [call.before EXCEPT !.name = call.args[2]]
                /\ AssignedKey \in PublicProperties =>
                      call.raised.type = "" /\ trial_obj = call.before
    /\ trial_obj.seed = "dict" =>
          /\ ~trial_obj.isfrozen
          /\ Called("setattr") =>
                /\ call.raised.type = ""
                /\ AssignedKey \notin PublicProperties \cup {"_Trial__name"} =>
                      \E i \in 1..Len(trial_obj.extra) :
                          trial_obj.extra[i] = [k |-> AssignedKey, v |-> call.args[2]]

\* a trial from Options refuses the new attribute 'notes' in its third
\* call, after an assignment to its private name that was stored
C28_Witness ==
    /\ trial_obj.seed = "Options"
    /\ Called("setattr") /\ AssignedKey = "notes"
    /\ call.raised.type = "TypeError"
    /\ trial_obj.extra = <<>>
    /\ trial_obj.name = "renamed"
    /\ n_calls = 3

\* the statuses of the components of a trial
Statuses(t) ==
    <<t.model.status, t.formulation.status, t.nlp.status, t.optimization.built,
      t.visualization.built, t.quality.built>>

BuiltAndOptimized(t) ==
    /\ t.seed = "Options"
    /\ t.model.status = "I am a model."
    /\ t.nlp.status = "I am an NLP."
    /\ t.optimization.built /\ t.optimization.solved

\* C29: saving a built and optimized multiple-shooting trial with the 'awe'
\* method replaces its NLP, optimization and visualization by fresh unbuilt
\* objects: the NLP status is 'NLP not yet built.' again, the model status
\* still 'I am a model.'; saving with the 'dict' method, or saving a
\* direct-collocation trial, leaves all component statuses unchanged
C29_AweSaveResets ==
    (Called("save") /\ BuiltAndOptimized(call.before)) =>
        IF call.args[1] = "awe"
              /\ call.before.options.nlp.discretization = "multiple_shooting"
        THEN /\ trial_obj.nlp.status = "NLP not yet built."
             /\ trial_obj.nlp.V = <<>> /\ trial_obj.nlp.timings = <<>>
             /\ ~trial_obj.optimization.built /\ ~trial_obj.optimization.solved
             /\ ~trial_obj.visualization.built
             /\ trial_obj.model.status = "I am a model."
             /\ trial_obj.formulation.status = "I am a formulation."
             /\ trial_obj.quality = call.before.quality
        ELSE /\ Statuses(trial_obj) = Statuses(call.before)
             /\ trial_obj = call.before

C29_Witness ==
    /\ Called("save") /\ BuiltAndOptimized(call.before)
    /\ call.args = <<"awe">>
    /\ call.before.options.nlp.discretization = "multiple_shooting"
    /\ call.before.visualization.recalibrated
    /\ trial_obj.nlp.status = "NLP not yet built."
    /\ trial_obj.model.status = "I am a model."

(***************************************************************************)
(* A sweep (sweep_funcs.py).                                               *)
(*                                                                         *)
(* The option dicts and the lists in them are mutable objects: the heap is *)
(* the sequence of the objects, an address is an index of it.  A value is  *)
(* a number [val |-> n] or a reference [ref |-> a] to an object; a key is  *)
(* a string [s |-> "..."] or an index [i |-> n].  An assignment stores a   *)
(* reference, copy.deepcopy makes new objects.                             *)
(***************************************************************************)
V(n) == [val |-> n]

R(a) == [ref |-> a]

K(name) == [s |-> name]

IsRef(value) == "ref" \in DOMAIN value

IsStr(key) == "s" \in DOMAIN key

Dict(items) == [kind |-> "dict", items |-> items]

List(items) == [kind |-> "list", items |-> items]

\* the base options {'nlp': {'n_k': 2, 'x0': [0]}, 'mu': 1} and a list [5]
\* of the caller
BaseHeap ==
    <<Dict(<<Item(K("nlp"), R(2)), Item(K("mu"), V(1))>>),
      Dict(<<Item(K("n_k"), V(2)), Item(K("x0"), R(3))>>),
      List(<<V(0)>>),
      List(<<V(5)>>)>>

\* the sweep type of an option: options.help_dict[keys][1]
get_from_dict(keys) ==
    IF keys = <<K("nlp"), K("n_k")>> THEN "t"
    ELSE IF keys = <<K("nlp"), K("x0")>> \/ keys = <<K("nlp"), K("x0"), [i |-> 0]>>
    THEN "x"
    ELSE IF keys = <<K("mu")>> THEN "s"
    ELSE "z"

\* the options a sweep is made of: (keys, values)
SweepOption(keys, values) == [keys |-> keys, values |-> values]

SweepChoices ==
    {SweepOption(<<K("nlp"), K("n_k")>>, <<V(2), V(3)>>),
     SweepOption(<<K("nlp"), K("n_k")>>, <<V(3)>>),
     SweepOption(<<K("nlp"), K("n_k")>>, <<>>),
     SweepOption(<<K("nlp"), K("x0")>>, <<R(4)>>),
     SweepOption(<<K("nlp"), K("x0"), [i |-> 0]>>, <<V(7), V(8)>>),
     SweepOption(<<K("mu")>>, <<V(1), V(2)>>),
     SweepOption(<<K("nlp"), K("d")>>, <<V(1)>>)}

SweepOpts ==
    {<<>>} \cup {<<a>> : a \in SweepChoices}
           \cup {<<a, b>> : a \in SweepChoices, b \in SweepChoices}
           \cup {<<SweepOption(<<K("mu")>>, <<V(1), V(2)>>),
                   SweepOption(<<K("nlp"), K("n_k")>>, <<V(2), V(3)>>),
                   SweepOption(<<K("nlp"), K("x0")>>, <<R(4)>>)>>,
                 <<SweepOption(<<K("nlp"), K("n_k")>>, <<V(2), V(3)>>),
                   SweepOption(<<K("nlp"), K("x0"), [i |-> 0]>>, <<V(7), V(8)>>),
                   SweepOption(<<K("nlp"), K("d")>>, <<V(1)>>)>>}

\* a sort that takes the type 'x' for a parameter option
SortsTo_XIsParameter(sweep_type) ==
    IF sweep_type \in {"s", "x"} THEN "params"
    ELSE IF sweep_type = "t" THEN "trials"
    ELSE "error"

\* the list an option of a sweep type is appended to
SortsTo(sweep_type) ==
    IF sweep_type = "s" THEN "params"
    ELSE IF sweep_type = "t" THEN "trials"
    ELSE IF sweep_type = "x" THEN "trials"
    ELSE "error"

\* the loop of process_sweep_opts from the option loop.i on
RECURSIVE ProcessFrom(_, _)
ProcessFrom(sweep_opts, loop) ==
    IF loop.i > Len(sweep_opts) THEN loop
    ELSE LET sweep_option == sweep_opts[loop.i]
             to == SortsTo(get_from_dict(sweep_option.keys))
         IN  IF to = "error"
             THEN [loop EXCEPT !.raised =
                      [type |-> "ValueError",
                       args |-> <<"wrong sweep type found in options">>]]
             ELSE ProcessFrom(sweep_opts,
                    [loop EXCEPT
                        !.i = @ + 1,
                        !.params_opts = IF to = "params"
                                        THEN Append(@, sweep_option) ELSE @,
                        !.trials_opts = IF to = "trials"
                                        THEN Append(@, sweep_option) ELSE @])

\* process_sweep_opts
process_sweep_opts(sweep_opts) ==
    ProcessFrom(sweep_opts, [i |-> 1, trials_opts |-> <<>>, params_opts |-> <<>>,
                             raised |-> NoError])

\* build_options_lists: per option the list of its (key, value) pairs
build_options_lists(opts) ==
    [o \in 1..Len(opts) |->
        [j \in 1..Len(opts[o].values) |-> <<opts[o].keys, opts[o].values[j]>>]]

\* itertools.product: the first list varies slowest
RECURSIVE product(_)
product(lists) ==
    IF Len(lists) = 0 THEN << <<>> >>
    ELSE LET rest == product(Tail(lists))
             first == Head(lists)
         IN  [p \in 1..(Len(first) * Len(rest)) |->
                 <<first[((p - 1) \div Len(rest)) + 1]>>
                     \o rest[((p - 1) % Len(rest)) + 1]]

\* build_options_combinations
build_options_combinations(opts) == product(build_options_lists(opts))

\* the addresses an object refers to
RefsOf(object) ==
    IF object.kind = "dict"
    THEN {object.items[i].v.ref : i \in {j \in 1..Len(object.items) :
                                            IsRef(object.items[j].v)}}
    ELSE {object.items[i].ref : i \in {j \in 1..Len(object.items) :
                                          IsRef(object.items[j])}}

\* the objects reachable from a set of addresses
RECURSIVE Reachable(_, _)
Reachable(h, addresses) ==
    LET more == addresses \cup UNION {RefsOf(h[a]) : a \in addresses}
    IN  IF more = addresses THEN addresses ELSE Reachable(h, more)

\* copy.deepcopy(h[root]): every reachable object is copied to a new address
deepcopy(h, root) ==
    LET old == Reachable(h, {root})
        New(a) == Len(h) + Cardinality({b \in old : b <= a})
        Moved(value) == IF IsRef(value) THEN R(New(value.ref)) ELSE value
        Copy(object) ==
            IF object.kind = "dict"
            THEN Dict([i \in 1..Len(object.items) |->
                         Item(object.items[i].k, Moved(object.items[i].v))])
            ELSE List([i \in 1..Len(object.items) |-> Moved(object.items[i])])
        Source(n) == CHOOSE a \in old : New(a) = n
    IN  [heap |-> [n \in 1..(Len(h) + Cardinality(old)) |->
                      IF n <= Len(h) THEN h[n] ELSE Copy(h[Source(n)])],
         root |-> New(root)]

\* object[key], for a dict or a list
ObjGet(object, key) ==
    IF object.kind = "dict" THEN DictGet(object.items, key)
    ELSE object.items[key.i + 1]

\* a copy of the value stored in place of the value
Stored_Copy(value) == IF IsRef(value) THEN V(0) ELSE value

\* what dict[key] = value stores: the value, a reference where it is one
Stored(value) == value

\* object[key] = value
ObjSet(object, key, value) ==
    IF object.kind = "dict"
    THEN Dict(DictSet(object.items, key, Stored(value)))
    ELSE List([object.items EXCEPT ![key.i + 1] = Stored(value)])

\* the object the keys but the last lead to
RECURSIVE Walk(_, _, _, _)
Walk(h, address, keys, i) ==
    IF i >= Len(keys) THEN address
    ELSE Walk(h, ObjGet(h[address], keys[i]).ref, keys, i + 1)

\* struct_op.set_in_dict(options, keys, value)
set_in_dict(h, dict, keys, value) ==
    LET address == Walk(h, dict, keys, 1)
    IN  [h EXCEPT ![address] = ObjSet(h[address], keys[Len(keys)], value)]

\* str(value) and str(keyname)
RECURSIVE StrItems(_, _)
StrItems(items, i) ==
    IF i > Len(items) THEN ""
    ELSE (IF i > 1 THEN ", " ELSE "") \o Str(items[i].val) \o StrItems(items, i + 1)

StrValue(h, value) ==
    IF IsRef(value) THEN "[" \o StrItems(h[value.ref].items, 1) \o "]"
    ELSE Str(value.val)

\* the loop of set_single_trial_options from the option loop.i on
RECURSIVE SetFrom(_, _)
SetFrom(sweep_options, loop) ==
    IF loop.i > Len(sweep_options) THEN loop
    ELSE LET keys == sweep_options[loop.i][1]
             value == sweep_options[loop.i][2]
             keyname == IF IsStr(keys[Len(keys)]) THEN keys[Len(keys)]
                        ELSE keys[Len(keys) - 1]
             h == set_in_dict(loop.heap, loop.options, keys, value)
         IN  SetFrom(sweep_options,
                     [i |-> loop.i + 1, heap |-> h, options |-> loop.options,
                      name |-> loop.name \o "_" \o keyname.s \o StrValue(h, value)])

\* set_single_trial_options
set_single_trial_options(h, base, sweep_options, name) ==
    LET copied == deepcopy(h, base)
    IN  SetFrom(sweep_options,
                [i |-> 1, heap |-> copied.heap, options |-> copied.root,
                 name |-> name])

\* a change of an object in place: a new number for a key of a dict, one
\* more element for a list
Changed(object) ==
    IF object.kind = "dict"
    THEN Dict(DictSet(object.items, K("n_k"), V(9)))
    ELSE List(Append(object.items, V(9)))

InitSweep ==
    /\ heap = BaseHeap
    /\ base_options = 1
    /\ returned = <<>>
    /\ sweep \in {[sweep_opts |-> opts, trials_opts |-> <<>>, params_opts |-> <<>>,
                   combs |-> <<>>] : opts \in SweepOpts}
    /\ call = NoCall
    /\ n_calls = 0
    /\ pc = "process"
    /\ error = NoError
    /\ nlp = None /\ TrialUnused
    /\ SchemaUnused /\ BoundsUnused /\ QualityUnused

ProcessSweepOpts ==
    /\ pc = "process"
    /\ LET out == process_sweep_opts(sweep.sweep_opts)
       IN  IF out.raised # NoError
           THEN /\ error' = out.raised
                /\ pc' = "raised"
                /\ UNCHANGED sweep
           ELSE /\ sweep' = [sweep EXCEPT !.trials_opts = out.trials_opts,
                                          !.params_opts = out.params_opts]
                /\ pc' = "combine"
                /\ UNCHANGED error
    /\ UNCHANGED <<heap, base_options, returned, call, n_calls, nlp, trial_obj,
                   schema_vars, bound_vars, quality_vars>>

BuildOptionsCombinations ==
    /\ pc = "combine"
    /\ sweep' = [sweep EXCEPT !.combs = build_options_combinations(sweep.trials_opts)]
    /\ pc' = "derive"
    /\ UNCHANGED <<heap, base_options, returned, call, n_calls, nlp, trial_obj,
                   error, schema_vars, bound_vars, quality_vars>>

SetSingleTrialOptions ==
    /\ pc = "derive"
    /\ n_calls < MaxCalls
    /\ \E c \in 1..Len(sweep.combs) :
          LET out == set_single_trial_options(heap, base_options, sweep.combs[c],
                                              "base")
          IN  /\ heap' = out.heap
              /\ returned' = Append(returned, [options |-> out.options,
                                               name |-> out.name])
              /\ call' = [op |-> "set_single_trial_options", before |-> heap,
                          comb |-> c]
    /\ n_calls' = n_calls + 1
    /\ UNCHANGED <<base_options, sweep, pc, error, nlp, trial_obj,
                   schema_vars, bound_vars, quality_vars>>

\* the caller changes, in place, an object of one returned configuration
ChangeReturned ==
    /\ pc = "derive"
    /\ n_calls < MaxCalls
    /\ \E r \in 1..Len(returned) :
          \E address \in Reachable(heap, {returned[r].options}) :
              /\ heap' = [heap EXCEPT ![address] = Changed(@)]
              /\ call' = [op |-> "change", before |-> heap, of |-> r]
    /\ n_calls' = n_calls + 1
    /\ UNCHANGED <<base_options, returned, sweep, pc, error, nlp, trial_obj,
                   schema_vars, bound_vars, quality_vars>>

NextSweep ==
    \/ ProcessSweepOpts
    \/ BuildOptionsCombinations
    \/ SetSingleTrialOptions
    \/ ChangeReturned

SpecSweep == InitSweep /\ [][NextSweep]_vars

(***************************************************************************)
(* Claims about a sweep.                                                   *)
(***************************************************************************)
\* what an object holds, the objects it refers to included
RECURSIVE Contents(_, _)
Contents(h, address) ==
    LET Held(value) == IF "ref" \in DOMAIN value
                       THEN [object |-> Contents(h, value.ref)]
                       ELSE value
        object == h[address]
    IN  IF object.kind = "dict"
        THEN [kind |-> "dict",
              items |-> [i \in 1..Len(object.items) |->
                            <<object.items[i].k, Held(object.items[i].v)>>]]
        ELSE [kind |-> "list",
              items |-> [i \in 1..Len(object.items) |-> Held(object.items[i])]]

ObjectsOf(address) == Reachable(heap, {address})

Configurations == {returned[r].options : r \in 1..Len(returned)}

\* C25: set_single_trial_options never aliases: after any sequence of calls
\* the base options hold what they held at the start, the options of two
\* calls (and the base) have no mutable object in common, and a change of
\* one returned configuration changes no other one
C25_NoSharedState ==
    pc = "derive" =>
        /\ Contents(heap, base_options) = Contents(BaseHeap, 1)
        /\ \A c \in Configurations : ObjectsOf(c) \cap ObjectsOf(base_options) = {}
        /\ \A r1, r2 \in 1..Len(returned) :
              r1 # r2 => ObjectsOf(returned[r1].options)
                             \cap ObjectsOf(returned[r2].options) = {}
        /\ call.op = "change" =>
              \A r \in 1..Len(returned) :
                  r # call.of => Contents(heap, returned[r].options)
                                     = Contents(call.before, returned[r].options)

SweepTypeOf(sweep_option) == get_from_dict(sweep_option.keys)

IsParameter(sweep_option) == SweepTypeOf(sweep_option) = "s"

IsTrial(sweep_option) == SweepTypeOf(sweep_option) \in {"t", "x"}

Processed == pc \in {"combine", "derive"}

NumberOfValues(i) == Len(sweep.trials_opts[i].values)

RECURSIVE ProductOfLengths(_)
ProductOfLengths(i) ==
    IF i > Len(sweep.trials_opts) THEN 1
    ELSE NumberOfValues(i) * ProductOfLengths(i + 1)

\* one value index per trial option
Choices ==
    {f \in [1..Len(sweep.trials_opts) -> 1..2] :
        \A i \in 1..Len(sweep.trials_opts) : f[i] <= NumberOfValues(i)}

\* C30: process_sweep_opts puts every option in exactly one list, in input
\* order: type 's' in the parameter list, types 't' and 'x' in the trial
\* list; any other type raises ValueError.  build_options_combinations
\* returns the cartesian product of the value lists: every combination has
\* one (key, value) pair per option, every choice of values is a
\* combination, and the combinations are as many as the product of the
\* lengths of the value lists
C30_PartitionAndProduct ==
    /\ pc = "raised" =>
          /\ \E i \in 1..Len(sweep.sweep_opts) :
                SweepTypeOf(sweep.sweep_opts[i]) \notin {"s", "t", "x"}
          /\ error.type = "ValueError"
    /\ Processed =>
          /\ \A i \in 1..Len(sweep.sweep_opts) :
                SweepTypeOf(sweep.sweep_opts[i]) \in {"s", "t", "x"}
          /\ sweep.params_opts = SelectSeq(sweep.sweep_opts, IsParameter)
          /\ sweep.trials_opts = SelectSeq(sweep.sweep_opts, IsTrial)
          /\ Len(sweep.params_opts) + Len(sweep.trials_opts) = Len(sweep.sweep_opts)
    /\ pc = "derive" =>
          /\ Len(sweep.combs) = ProductOfLengths(1)
          /\ \A c \in 1..Len(sweep.combs) :
                /\ Len(sweep.combs[c]) = Len(sweep.trials_opts)
                /\ \A i \in 1..Len(sweep.trials_opts) :
                      /\ sweep.combs[c][i][1] = sweep.trials_opts[i].keys
                      /\ \E j \in 1..NumberOfValues(i) :
                            sweep.combs[c][i][2] = sweep.trials_opts[i].values[j]
          /\ \A f \in Choices :
                \E c \in 1..Len(sweep.combs) :
                    \A i \in 1..Len(sweep.trials_opts) :
                        sweep.combs[c][i][2] = sweep.trials_opts[i].values[f[i]]

\* a sweep of a parameter option, a trial option of two values and an 'x'
\* option of one: two combinations of two pairs
C30_Witness ==
    /\ pc = "derive"
    /\ Len(sweep.sweep_opts) = 3
    /\ Len(sweep.params_opts) = 1 /\ Len(sweep.trials_opts) = 2
    /\ sweep.sweep_opts[1] = sweep.params_opts[1]
    /\ Len(sweep.combs) = 2
    /\ sweep.combs[1][1][2] # sweep.combs[2][1][2]
    /\ sweep.combs[1][2] = sweep.combs[2][2]

====
